------------------------- MODULE SwapSchedulerProofs -------------------------
(***************************************************************************)
(* The safety of SwapScheduler for any memory, number of attempts and      *)
(* levels.  The argument follows the pairs a purification has reserved:    *)
(* per link, the queue accounts for exactly the reserved slots (HeldOn).   *)
(* Everything a memory goes through inside an event leaves reserved slots  *)
(* alone; the end of a purification frees its own two; a start reserves    *)
(* two more and pushes the event that will free them.  That ready pairs    *)
(* leave their memories together is the other half: no event ends with a   *)
(* pair of one link taken and none of the other (NobodyWaits).             *)
(***************************************************************************)
EXTENDS SwapScheduler, FiniteSetTheorems, SequenceTheorems, TLAPS

Pair == [f : Nat, rounds : Nat, reserved : BOOLEAN]
Memory == UNION {[S -> Pair] : S \in SUBSET Slot}
Event == [type : {"ATTEMPT"}, link : Link]
           \cup [type : {"PURIFY_DONE"}, link : Link, pair : SUBSET Slot]
           \cup [type : {"SWAP_DONE"}, pairs : [Link -> Nat]]

TypeOK ==
  /\ mem \in [Link -> Memory]
  /\ due \in Seq(Event) /\ later \in Seq(Event)

Busy(m) == {i \in DOMAIN m : m[i].reserved}

(* The queue es accounts for the reserved slots "busy" of link L.          *)
IsOp(e, L) == e.type = "PURIFY_DONE" /\ e.link = L
HeldOn(L, busy, es) ==
  /\ \A i \in busy : \E k \in DOMAIN es : IsOp(es[k], L) /\ i \in es[k].pair
  /\ \A k \in DOMAIN es : IsOp(es[k], L) =>
       /\ Cardinality(es[k].pair) = 2 /\ es[k].pair \subseteq busy
       /\ \A j \in DOMAIN es : IsOp(es[j], L) /\ j # k => es[k].pair \cap es[j].pair = {}

Held(ms, es) == \A L \in Link : HeldOn(L, Busy(ms[L]), es)

\* Some level survives the wait for the swap.
Attainable == \E f \in 1..Best : Survives(f)
MeetsTarget(e) ==
  Attainable /\ e.type = "SWAP_DONE" =>
    Swapped(Dephased(e.pairs["AR"]), Dephased(e.pairs["RB"])) >= Target
AllMeetTarget(es) == \A k \in DOMAIN es : MeetsTarget(es[k])

NobodyWaits == DOMAIN readyForSwap = {}

IInv ==
  /\ TypeOK /\ Held(mem, events) /\ AllMeetTarget(events)
  /\ NobodyWaits /\ NoWorkLeftBehind

-----------------------------------------------------------------------------
(* 1. Sets and levels.                                                     *)

\* A function to the naturals has a greatest value on a finite set.
LEMMA HasGreatest ==
  ASSUME NEW S, IsFiniteSet(S), S # {}, NEW g \in [S -> Nat]
  PROVE  \E x \in S : \A y \in S : g[y] <= g[x]
<1> DEFINE Great(U, x) == \A y \in U : g[y] <= g[x]
           Bad == {U \in SUBSET S : U # {} /\ ~\E x \in U : Great(U, x)}
<1>1. SUFFICES ASSUME Bad # {} PROVE FALSE
  <2>1. S \notin Bad
    BY <1>1
  <2> QED  BY <2>1
<1>2. Bad \subseteq FiniteSubsetsOf(S)
  BY FS_FiniteSubsetsOfFinite
<1>3. PICK U \in Bad : \A V \in Bad : ~(<<V, U>> \in StrictSubsetOrdering(S))
  <2> HIDE DEF Bad
  <2> QED  BY <1>1, <1>2, FS_StrictSubsetOrderingWellFounded, WFMin
<1>4. PICK x \in U : TRUE
  OBVIOUS
<1>5. U \ {x} \notin Bad
  <2>1. U \in SUBSET S /\ U \ {x} \in SUBSET S /\ U \ {x} \subseteq U /\ U \ {x} # U
    OBVIOUS
  <2>2. <<U \ {x}, U>> \in StrictSubsetOrdering(S)
    BY <2>1 DEF StrictSubsetOrdering
  <2> QED  BY <2>2, <1>3
<1>6. CASE U \ {x} = {}
  <2>1. Great(U, x)
    BY <1>6
  <2> QED  BY <2>1
<1>7. CASE U \ {x} # {}
  <2>1. PICK y \in U \ {x} : \A z \in U \ {x} : g[z] <= g[y]
    BY <1>5, <1>7
  <2>2. g[x] \in Nat /\ g[y] \in Nat /\ \A z \in U : g[z] \in Nat
    OBVIOUS
  <2>3. CASE g[x] <= g[y]
    BY <2>1, <2>3
  <2>4. CASE g[y] <= g[x]
    BY <2>1, <2>2, <2>4
  <2> QED  BY <2>2, <2>3, <2>4
<1> QED  BY <1>6, <1>7

\* Two different elements make a pair.
LEMMA PairOf ==
  ASSUME NEW S, NEW x \in S, NEW y \in S, x # y
  PROVE  {x, y} \in Two(S)
<1>1. IsFiniteSet({x}) /\ Cardinality({x}) = 1
  BY FS_Singleton
<1>2. Cardinality({x} \cup {y}) = 2
  BY <1>1, FS_AddElement
<1>3. {x} \cup {y} = {x, y}
  OBVIOUS
<1> QED  BY <1>2, <1>3 DEF Two

\* The two best of a set with two elements or more.
LEMMA TopTwo ==
  ASSUME NEW S, IsFiniteSet(S), Cardinality(S) >= 2, NEW g \in [S -> Nat]
  PROVE  \E p \in Two(S) : \A i \in p, j \in S \ p : g[j] <= g[i]
<1>1. S # {}
  BY FS_EmptySet
<1>2. PICK x \in S : \A y \in S : g[y] <= g[x]
  BY <1>1, HasGreatest
<1> DEFINE R == S \ {x}
           h == [y \in R |-> g[y]]
<1>3. IsFiniteSet(R) /\ Cardinality(R) = Cardinality(S) - 1
  BY FS_RemoveElement
<1>4. R # {}
  <2>1. Cardinality(S) \in Nat
    BY FS_CardinalityType
  <2> HIDE DEF R
  <2> QED  BY <1>3, <2>1, FS_EmptySet
<1>5. h \in [R -> Nat]
  OBVIOUS
<1>6. PICK y \in R : \A z \in R : h[z] <= h[y]
  <2> HIDE DEF R, h
  <2> QED  BY <1>3, <1>4, <1>5, HasGreatest
<1>7. {x, y} \in Two(S)
  BY PairOf
<1>8. \A i \in {x, y}, j \in S \ {x, y} : g[j] <= g[i]
  BY <1>2, <1>6
<1> QED  BY <1>7, <1>8

\* The level a link pair needs: one for the wait, one for the swap.
LEMMA LinkTargetIs ==
  LinkTarget \in Nat /\ (Attainable => LinkTarget = Target + 2)
<1> DEFINE good == {f \in 1..Best : Survives(f)}
<1>1. Target \in Nat \ {0} /\ Best \in Nat \ {0}
  BY SwapAssumption
<1>2. \A f \in 1..Best : Survives(f) <=> f >= Target + 2
  BY <1>1 DEF Survives, Swapped, Dephased
<1>3. Attainable <=> good # {}
  BY DEF Attainable
<1>4. LinkTarget = IF good = {} THEN Best ELSE Min(good)
  BY DEF LinkTarget
<1>5. ASSUME good # {} PROVE Min(good) = Target + 2
  <2>1. \A f \in good : f \in Nat /\ Target + 2 <= f
    BY <1>1, <1>2
  <2>2. Target + 2 \in good
    BY <1>1, <1>2, <1>5
  <2> HIDE DEF good
  <2>3. \A x \in good : (\A y \in good : x <= y) => x = Target + 2
    BY <1>1, <2>1, <2>2
  <2> QED  BY <2>1, <2>2, <2>3 DEF Min
<1> HIDE DEF good
<1> QED  BY <1>1, <1>3, <1>4, <1>5

-----------------------------------------------------------------------------
(* 2. The memory of a link.                                                *)

LEMMA MemoryShape ==
  ASSUME NEW m
  PROVE  m \in Memory <=> DOMAIN m \in SUBSET Slot /\ m \in [DOMAIN m -> Pair]
  BY DEF Memory

LEMMA SlotsFinite ==
  ASSUME NEW S \in SUBSET Slot
  PROVE  IsFiniteSet(S) /\ Cardinality(S) \in Nat
<1>1. IsFiniteSet(Slot)
  BY SwapAssumption, FS_Interval DEF Slot
<1> QED  BY <1>1, FS_Subset, FS_CardinalityType

LEMMA WithoutFree ==
  ASSUME NEW m \in Memory, NEW S, S \cap Busy(m) = {}
  PROVE  /\ Without(m, S) \in Memory /\ Busy(Without(m, S)) = Busy(m)
         /\ Free(Without(m, S)) = Free(m) \ S
         /\ DOMAIN Without(m, S) = DOMAIN m \ S
         /\ \A i \in DOMAIN m \ S : Without(m, S)[i] = m[i]
<1> DEFINE w == Without(m, S)
<1>1. DOMAIN m \in SUBSET Slot /\ m \in [DOMAIN m -> Pair]
  BY MemoryShape
<1>2. DOMAIN w = DOMAIN m \ S /\ (\A i \in DOMAIN m \ S : w[i] = m[i])
      /\ w \in [DOMAIN m \ S -> Pair]
  BY <1>1 DEF Without, Restrict
<1> HIDE DEF w
<1>3. w \in Memory
  BY <1>1, <1>2, MemoryShape
<1>4. Busy(w) = Busy(m)
  BY <1>2 DEF Busy
<1>5. Free(w) = Free(m) \ S
  BY <1>2 DEF Free
<1> QED  BY <1>2, <1>3, <1>4, <1>5 DEF w

LEMMA WithoutTwo ==
  ASSUME NEW m \in Memory, NEW S
  PROVE  Without(m, S) \in Memory /\ Busy(Without(m, S)) = Busy(m) \ S
<1> DEFINE w == Without(m, S)
<1>1. DOMAIN m \in SUBSET Slot /\ m \in [DOMAIN m -> Pair]
  BY MemoryShape
<1>2. DOMAIN w = DOMAIN m \ S /\ (\A i \in DOMAIN m \ S : w[i] = m[i])
      /\ w \in [DOMAIN m \ S -> Pair]
  BY <1>1 DEF Without, Restrict
<1> HIDE DEF w
<1>3. w \in Memory
  BY <1>1, <1>2, MemoryShape
<1>4. Busy(w) = Busy(m) \ S
  BY <1>2 DEF Busy
<1> QED  BY <1>3, <1>4 DEF w

LEMMA CollectedKeeps ==
  ASSUME NEW m \in Memory
  PROVE  gc(m) \in Memory /\ Busy(gc(m)) = Busy(m)
<1>1. {i \in Free(m) : m[i].f < Floor} \cap Busy(m) = {}
  BY DEF Free, Busy
<1> QED  BY <1>1, WithoutFree DEF gc

LEMMA AdvancedKeeps ==
  ASSUME NEW m \in Memory, NEW lost, lost \subseteq Free(m)
  PROVE  Advanced(m, lost) \in Memory /\ Busy(Advanced(m, lost)) = Busy(m)
<1> DEFINE a == Advanced(m, lost)
<1>1. DOMAIN m \in SUBSET Slot /\ m \in [DOMAIN m -> Pair]
  BY MemoryShape
<1>2. /\ DOMAIN a = DOMAIN m \ lost
      /\ \A i \in DOMAIN m \ lost :
           a[i] = IF i \in Free(m) THEN [m[i] EXCEPT !.f = Dephased(@)] ELSE m[i]
      /\ a = [i \in DOMAIN a |-> a[i]]
  BY DEF Advanced
<1> HIDE DEF a
<1>3. ASSUME NEW i \in DOMAIN m \ lost
      PROVE  a[i] \in Pair /\ a[i].reserved = m[i].reserved
  <2>1. m[i] \in Pair
    BY <1>1
  <2>2. Dephased(m[i].f) \in Nat
    BY <2>1 DEF Pair, Dephased
  <2> QED  BY <1>2, <2>1, <2>2 DEF Pair
<1>4. a \in Memory
  <2>1. a \in [DOMAIN m \ lost -> Pair]
    BY <1>2, <1>3
  <2> QED  BY <1>1, <1>2, <2>1, MemoryShape
<1>5. Busy(a) = Busy(m)
  <2>1. \A i \in Busy(m) : i \notin lost
    BY DEF Busy, Free
  <2> QED  BY <1>2, <1>3, <2>1 DEF Busy
<1> QED  BY <1>4, <1>5 DEF a

\* Newcomers take free slots and slots of free pairs.
LEMMA PlacedKeeps ==
  ASSUME NEW m \in Memory, NEW pair \in Pair, ~pair.reserved, NEW n, NEW evicts,
         NEW new \in Placed(m, pair, n, evicts)
  PROVE  new \in Memory /\ Busy(new) = Busy(m)
<1>1. PICK o \in SUBSET Worse(m, pair, evicts) :
        new = [i \in DOMAIN Without(m, o) \cup Lowest(Slot \ DOMAIN Without(m, o), n) |->
                 IF i \in DOMAIN Without(m, o) THEN Without(m, o)[i] ELSE pair]
  BY DEF Placed
<1>2. o \cap Busy(m) = {}
  BY DEF Worse, Free, Busy
<1> DEFINE w == Without(m, o)
           in == Lowest(Slot \ DOMAIN w, n)
<1>3. w \in Memory /\ Busy(w) = Busy(m)
  BY <1>2, WithoutFree
<1>4. new = [i \in DOMAIN w \cup in |-> IF i \in DOMAIN w THEN w[i] ELSE pair]
  BY <1>1
<1>5. in \subseteq Slot \ DOMAIN w
  BY DEF Lowest
<1> HIDE DEF w, in
<1>6. DOMAIN w \in SUBSET Slot /\ w \in [DOMAIN w -> Pair]
  BY <1>3, MemoryShape
<1>7. new \in Memory
  <2>1. DOMAIN new = DOMAIN w \cup in /\ new \in [DOMAIN w \cup in -> Pair]
    BY <1>4, <1>6
  <2> QED  BY <2>1, <1>5, <1>6, MemoryShape
<1>8. Busy(new) = Busy(w)
  BY <1>4, <1>5 DEF Busy
<1> QED  BY <1>3, <1>7, <1>8

LEMMA ReservedMore ==
  ASSUME NEW m \in Memory, NEW S
  PROVE  /\ Reserved(m, S) \in Memory
         /\ Busy(Reserved(m, S)) = Busy(m) \cup (S \cap DOMAIN m)
         /\ Free(Reserved(m, S)) = Free(m) \ S
<1> DEFINE r == Reserved(m, S)
<1>1. DOMAIN m \in SUBSET Slot /\ m \in [DOMAIN m -> Pair]
  BY MemoryShape
<1>2. /\ DOMAIN r = DOMAIN m /\ r = [i \in DOMAIN r |-> r[i]]
      /\ \A i \in DOMAIN m :
           r[i] = IF i \in S THEN [m[i] EXCEPT !.reserved = TRUE] ELSE m[i]
  BY DEF Reserved
<1> HIDE DEF r
<1>3. ASSUME NEW i \in DOMAIN m
      PROVE  r[i] \in Pair /\ (r[i].reserved <=> i \in S \/ m[i].reserved)
  <2>1. m[i] \in Pair
    BY <1>1
  <2> QED  BY <1>2, <2>1 DEF Pair
<1>4. r \in Memory
  <2>1. r \in [DOMAIN m -> Pair]
    BY <1>2, <1>3
  <2> QED  BY <1>1, <1>2, <2>1, MemoryShape
<1>5. Busy(r) = Busy(m) \cup (S \cap DOMAIN m)
  BY <1>2, <1>3 DEF Busy
<1>6. Free(r) = Free(m) \ S
  BY <1>2, <1>3 DEF Free
<1> QED  BY <1>4, <1>5, <1>6 DEF r

-----------------------------------------------------------------------------
(* 3. The queue.                                                           *)

LEMMA StartedShape ==
  ASSUME NEW n \in Nat, NEW sel \in [1..n -> SUBSET Slot], NEW L \in Link
  PROVE  /\ Started(L, sel) \in Seq(Event) /\ Len(Started(L, sel)) = n
         /\ \A k \in 1..n :
              /\ Started(L, sel)[k].type = "PURIFY_DONE"
              /\ Started(L, sel)[k].link = L /\ Started(L, sel)[k].pair = sel[k]
<1> DEFINE st == Started(L, sel)
<1>1. st = [k \in 1..n |-> [type |-> "PURIFY_DONE", link |-> L, pair |-> sel[k]]]
  BY DEF Started
<1>2. \A k \in 1..n : [type |-> "PURIFY_DONE", link |-> L, pair |-> sel[k]] \in Event
  BY DEF Event
<1>3. st \in [1..n -> Event]
  BY <1>1, <1>2
<1>4. st \in Seq(Event) /\ Len(st) = n
  BY <1>3
<1>5. \A k \in 1..n : st[k].type = "PURIFY_DONE" /\ st[k].link = L /\ st[k].pair = sel[k]
  BY <1>1
<1> QED  BY <1>4, <1>5

LEMMA CatParts ==
  ASSUME NEW s \in Seq(Event), NEW t \in Seq(Event), NEW c, c = s \o t
  PROVE  /\ c \in Seq(Event) /\ Len(c) = Len(s) + Len(t) /\ Len(s) \in Nat
         /\ DOMAIN c = 1..(Len(s) + Len(t))
         /\ DOMAIN s = 1..Len(s) /\ DOMAIN t = 1..Len(t)
         /\ \A k \in DOMAIN s : k \in DOMAIN c /\ c[k] = s[k]
         /\ \A k \in DOMAIN t : Len(s) + k \in DOMAIN c /\ c[Len(s) + k] = t[k]
         /\ \A k \in DOMAIN c : k \in DOMAIN s \/ k - Len(s) \in DOMAIN t
         /\ \A k \in DOMAIN c :
              c[k] = IF k \in DOMAIN s THEN s[k] ELSE t[k - Len(s)]
<1>1. /\ c \in Seq(Event) /\ Len(c) = Len(s) + Len(t)
      /\ \A i \in 1..(Len(s) + Len(t)) : c[i] = IF i <= Len(s) THEN s[i] ELSE t[i - Len(s)]
  BY ConcatProperties
<1>2. Len(s) \in Nat /\ DOMAIN s = 1..Len(s) /\ Len(t) \in Nat /\ DOMAIN t = 1..Len(t)
  BY LenProperties
<1>3. DOMAIN c = 1..(Len(s) + Len(t))
  BY <1>1, LenProperties
<1>4. \A k \in DOMAIN c : c[k] = IF k \in DOMAIN s THEN s[k] ELSE t[k - Len(s)]
  BY <1>1, <1>2, <1>3
<1>5. \A k \in DOMAIN s : k \in DOMAIN c /\ c[k] = s[k]
  BY <1>2, <1>3, <1>4
<1>6. \A k \in DOMAIN t : Len(s) + k \in DOMAIN c /\ c[Len(s) + k] = t[k]
  <2> TAKE k \in DOMAIN t
  <2>1. Len(s) + k \in 1..(Len(s) + Len(t)) /\ Len(s) + k \notin 1..Len(s)
        /\ (Len(s) + k) - Len(s) = k
    BY <1>2
  <2> QED  BY <1>2, <1>3, <1>4, <2>1
<1>7. \A k \in DOMAIN c : k \in DOMAIN s \/ k - Len(s) \in DOMAIN t
  BY <1>2, <1>3
<1> QED  BY <1>1, <1>2, <1>3, <1>4, <1>5, <1>6, <1>7

\* Events that end no purification of L change nothing.
LEMMA HeldOther ==
  ASSUME NEW s \in Seq(Event), NEW t \in Seq(Event), NEW L, NEW b, HeldOn(L, b, s),
         \A k \in DOMAIN t : ~IsOp(t[k], L)
  PROVE  HeldOn(L, b, s \o t)
<1> DEFINE c == s \o t
<1>1. /\ \A k \in DOMAIN s : k \in DOMAIN c /\ c[k] = s[k]
      /\ \A k \in DOMAIN c : IsOp(c[k], L) => k \in DOMAIN s
  <2>1. /\ \A k \in DOMAIN s : k \in DOMAIN c /\ c[k] = s[k]
        /\ \A k \in DOMAIN c : k \in DOMAIN s \/ k - Len(s) \in DOMAIN t
        /\ \A k \in DOMAIN c : c[k] = IF k \in DOMAIN s THEN s[k] ELSE t[k - Len(s)]
    BY CatParts
  <2> HIDE DEF c
  <2> QED  BY <2>1
<1> HIDE DEF c
<1>2. HeldOn(L, b, c)
  BY <1>1 DEF HeldOn
<1> QED  BY <1>2 DEF c

\* Starts reserve the pairs whose ends they push.
LEMMA HeldStarted ==
  ASSUME NEW s \in Seq(Event), NEW L \in Link, NEW b, HeldOn(L, b, s),
         NEW n \in Nat, NEW sel \in [1..n -> SUBSET Slot],
         \A k \in 1..n : Cardinality(sel[k]) = 2 /\ sel[k] \cap b = {},
         \A j, k \in 1..n : j # k => sel[j] \cap sel[k] = {}
  PROVE  HeldOn(L, b \cup UNION Range(sel), s \o Started(L, sel))
<1> DEFINE t == Started(L, sel)
           c == s \o t
           u == b \cup UNION Range(sel)
<1>1. /\ t \in Seq(Event) /\ Len(t) = n
      /\ \A k \in 1..n : IsOp(t[k], L) /\ t[k].pair = sel[k]
  BY StartedShape DEF IsOp
<1>2. /\ Len(s) \in Nat /\ DOMAIN t = 1..n
      /\ \A k \in DOMAIN s : k \in DOMAIN c /\ c[k] = s[k]
      /\ \A k \in DOMAIN t : Len(s) + k \in DOMAIN c /\ c[Len(s) + k] = t[k]
      /\ \A k \in DOMAIN c : k \in DOMAIN s \/ k - Len(s) \in DOMAIN t
      /\ \A k \in DOMAIN c : c[k] = IF k \in DOMAIN s THEN s[k] ELSE t[k - Len(s)]
      /\ DOMAIN c \subseteq Int
  <2> HIDE DEF t
  <2> QED  BY <1>1, CatParts
<1>3. \A i : i \in u <=> i \in b \/ \E k \in 1..n : i \in sel[k]
  BY DEF Range
<1> HIDE DEF t, c, u
<1>4. ASSUME NEW i \in u PROVE \E k \in DOMAIN c : IsOp(c[k], L) /\ i \in c[k].pair
  <2>1. CASE i \in b
    BY <2>1, <1>2 DEF HeldOn
  <2>2. CASE \E k \in 1..n : i \in sel[k]
    <3>1. PICK k \in 1..n : i \in sel[k]
      BY <2>2
    <3>2. Len(s) + k \in DOMAIN c /\ c[Len(s) + k] = t[k]
      BY <1>2, <3>1
    <3> QED  BY <3>1, <3>2, <1>1
  <2> QED  BY <1>3, <2>1, <2>2
<1>5. ASSUME NEW k \in DOMAIN c, IsOp(c[k], L)
      PROVE  Cardinality(c[k].pair) = 2 /\ c[k].pair \subseteq u
  <2>1. CASE k \in DOMAIN s
    BY <2>1, <1>2, <1>3, <1>5 DEF HeldOn
  <2>2. CASE k \notin DOMAIN s
    <3>1. k - Len(s) \in 1..n /\ c[k].pair = sel[k - Len(s)]
      BY <2>2, <1>1, <1>2
    <3> QED  BY <3>1, <1>3
  <2> QED  BY <2>1, <2>2
<1>6. ASSUME NEW k \in DOMAIN c, IsOp(c[k], L), NEW j \in DOMAIN c, IsOp(c[j], L), j # k
      PROVE  c[k].pair \cap c[j].pair = {}
  <2>1. CASE k \in DOMAIN s /\ j \in DOMAIN s
    BY <2>1, <1>2, <1>6 DEF HeldOn
  <2>2. CASE k \in DOMAIN s /\ j \notin DOMAIN s
    <3>1. c[k].pair \subseteq b
      BY <2>2, <1>2, <1>6 DEF HeldOn
    <3>2. j - Len(s) \in 1..n /\ c[j].pair = sel[j - Len(s)]
      BY <2>2, <1>1, <1>2
    <3> QED  BY <3>1, <3>2
  <2>3. CASE k \notin DOMAIN s /\ j \in DOMAIN s
    <3>1. c[j].pair \subseteq b
      BY <2>3, <1>2, <1>6 DEF HeldOn
    <3>2. k - Len(s) \in 1..n /\ c[k].pair = sel[k - Len(s)]
      BY <2>3, <1>1, <1>2
    <3> QED  BY <3>1, <3>2
  <2>4. CASE k \notin DOMAIN s /\ j \notin DOMAIN s
    <3>1. /\ j - Len(s) \in 1..n /\ c[j].pair = sel[j - Len(s)]
          /\ k - Len(s) \in 1..n /\ c[k].pair = sel[k - Len(s)]
      BY <2>4, <1>1, <1>2
    <3>2. j - Len(s) # k - Len(s)
      BY <1>2, <1>6
    <3> QED  BY <3>1, <3>2
  <2> QED  BY <2>1, <2>2, <2>3, <2>4
<1>7. HeldOn(L, u, c)
  BY <1>4, <1>5, <1>6 DEF HeldOn
<1> QED  BY <1>7 DEF u, c, t

LEMMA TailParts ==
  ASSUME NEW s \in Seq(Event), s # <<>>, NEW t, t = Tail(s)
  PROVE  /\ Head(s) = s[1] /\ Head(s) \in Event /\ 1 \in DOMAIN s
         /\ t \in Seq(Event) /\ DOMAIN s \subseteq Int
         /\ \A k \in DOMAIN t : k + 1 \in DOMAIN s /\ t[k] = s[k + 1] /\ k \in Nat \ {0}
         /\ \A k \in DOMAIN s : k # 1 => k - 1 \in DOMAIN t /\ t[k - 1] = s[k]
<1>1. /\ Len(s) \in Nat \ {0} /\ DOMAIN s = 1..Len(s)
  BY LenProperties, EmptySeq
<1>2. /\ Head(s) \in Event /\ t \in Seq(Event) /\ Len(t) = Len(s) - 1
      /\ \A i \in 1..Len(t) : t[i] = s[i + 1]
  BY HeadTailProperties
<1>3. DOMAIN t = 1..Len(t)
  BY <1>2, LenProperties
<1>4. Head(s) = s[1]
  OBVIOUS
<1>5. \A k \in DOMAIN t : k + 1 \in DOMAIN s /\ t[k] = s[k + 1] /\ k \in Nat \ {0}
  BY <1>1, <1>2, <1>3
<1>6. \A k \in DOMAIN s : k # 1 => k - 1 \in DOMAIN t /\ t[k - 1] = s[k]
  <2> TAKE k \in DOMAIN s
  <2> HAVE k # 1
  <2>1. k - 1 \in 1..Len(t) /\ (k - 1) + 1 = k
    BY <1>1, <1>2
  <2> QED  BY <2>1, <1>2, <1>3
<1>7. 1 \in DOMAIN s /\ DOMAIN s \subseteq Int
  BY <1>1
<1> QED  BY <1>2, <1>4, <1>5, <1>6, <1>7

LEMMA HeldTail ==
  ASSUME NEW s \in Seq(Event), s # <<>>, NEW L, NEW b, HeldOn(L, b, s), ~IsOp(Head(s), L)
  PROVE  HeldOn(L, b, Tail(s))
<1> DEFINE t == Tail(s)
<1>1. /\ Head(s) = s[1] /\ DOMAIN s \subseteq Int
      /\ \A k \in DOMAIN t : k + 1 \in DOMAIN s /\ t[k] = s[k + 1] /\ k \in Nat \ {0}
      /\ \A k \in DOMAIN s : k # 1 => k - 1 \in DOMAIN t /\ t[k - 1] = s[k]
  BY TailParts
<1> HIDE DEF t
<1>2. \A i \in b : \E k \in DOMAIN t : IsOp(t[k], L) /\ i \in t[k].pair
  <2> TAKE i \in b
  <2>1. PICK k \in DOMAIN s : IsOp(s[k], L) /\ i \in s[k].pair
    BY DEF HeldOn
  <2>2. k # 1
    BY <1>1, <2>1
  <2>3. k - 1 \in DOMAIN t /\ t[k - 1] = s[k]
    BY <1>1, <2>1, <2>2
  <2> QED  BY <2>1, <2>3
<1>3. \A k \in DOMAIN t : IsOp(t[k], L) =>
        Cardinality(t[k].pair) = 2 /\ t[k].pair \subseteq b
  BY <1>1 DEF HeldOn
<1>4. ASSUME NEW k \in DOMAIN t, NEW j \in DOMAIN t, IsOp(t[k], L), IsOp(t[j], L), j # k
      PROVE  t[k].pair \cap t[j].pair = {}
  <2>1. k + 1 \in DOMAIN s /\ j + 1 \in DOMAIN s /\ j + 1 # k + 1
        /\ t[k] = s[k + 1] /\ t[j] = s[j + 1]
    BY <1>1, <1>4
  <2> QED  BY <1>4, <2>1 DEF HeldOn
<1>5. HeldOn(L, b, t)
  BY <1>2, <1>3, <1>4 DEF HeldOn
<1> QED  BY <1>5 DEF t

\* The end of a purification gives its two slots back.
LEMMA HeldTailOp ==
  ASSUME NEW s \in Seq(Event), s # <<>>, NEW L, NEW b, HeldOn(L, b, s), IsOp(Head(s), L)
  PROVE  HeldOn(L, b \ Head(s).pair, Tail(s))
<1> DEFINE t == Tail(s)
           p == Head(s).pair
<1>1. /\ Head(s) = s[1] /\ DOMAIN s \subseteq Int /\ 1 \in DOMAIN s
      /\ \A k \in DOMAIN t : k + 1 \in DOMAIN s /\ t[k] = s[k + 1] /\ k \in Nat \ {0}
      /\ \A k \in DOMAIN s : k # 1 => k - 1 \in DOMAIN t /\ t[k - 1] = s[k]
  BY TailParts
<1>a. p = s[1].pair /\ IsOp(s[1], L)
  BY <1>1
<1> HIDE DEF t, p
<1>2. \A i \in b \ p : \E k \in DOMAIN t : IsOp(t[k], L) /\ i \in t[k].pair
  <2> TAKE i \in b \ p
  <2>1. PICK k \in DOMAIN s : IsOp(s[k], L) /\ i \in s[k].pair
    BY DEF HeldOn
  <2>2. k # 1
    BY <1>1, <1>a, <2>1
  <2>3. k - 1 \in DOMAIN t /\ t[k - 1] = s[k]
    BY <1>1, <2>1, <2>2
  <2> QED  BY <2>1, <2>3
<1>3. ASSUME NEW k \in DOMAIN t, IsOp(t[k], L)
      PROVE  Cardinality(t[k].pair) = 2 /\ t[k].pair \subseteq b \ p
  <2>1. k + 1 \in DOMAIN s /\ t[k] = s[k + 1] /\ k + 1 # 1
    BY <1>1
  <2>2. Cardinality(s[k + 1].pair) = 2 /\ s[k + 1].pair \subseteq b
        /\ s[k + 1].pair \cap s[1].pair = {}
    BY <1>1, <1>3, <1>a, <2>1 DEF HeldOn
  <2> QED  BY <2>1, <2>2, <1>a
<1>4. ASSUME NEW k \in DOMAIN t, NEW j \in DOMAIN t, IsOp(t[k], L), IsOp(t[j], L), j # k
      PROVE  t[k].pair \cap t[j].pair = {}
  <2>1. k + 1 \in DOMAIN s /\ j + 1 \in DOMAIN s /\ j + 1 # k + 1
        /\ t[k] = s[k + 1] /\ t[j] = s[j + 1]
    BY <1>1, <1>4
  <2> QED  BY <1>4, <2>1 DEF HeldOn
<1>5. HeldOn(L, b \ p, t)
  BY <1>2, <1>3, <1>4 DEF HeldOn
<1> QED  BY <1>5 DEF t, p

LEMMA MeetCat ==
  ASSUME NEW s \in Seq(Event), NEW t \in Seq(Event), AllMeetTarget(s), AllMeetTarget(t)
  PROVE  AllMeetTarget(s \o t)
<1> DEFINE c == s \o t
<1>1. /\ \A k \in DOMAIN c : k \in DOMAIN s \/ k - Len(s) \in DOMAIN t
      /\ \A k \in DOMAIN c : c[k] = IF k \in DOMAIN s THEN s[k] ELSE t[k - Len(s)]
  BY CatParts
<1> HIDE DEF c
<1>2. AllMeetTarget(c)
  BY <1>1 DEF AllMeetTarget
<1> QED  BY <1>2 DEF c

LEMMA MeetTail ==
  ASSUME NEW s \in Seq(Event), s # <<>>, AllMeetTarget(s)
  PROVE  AllMeetTarget(Tail(s))
<1> DEFINE t == Tail(s)
<1>1. \A k \in DOMAIN t : k + 1 \in DOMAIN s /\ t[k] = s[k + 1]
  BY TailParts
<1> HIDE DEF t
<1>2. AllMeetTarget(t)
  BY <1>1 DEF AllMeetTarget
<1> QED  BY <1>2 DEF t

-----------------------------------------------------------------------------
(* 4. Choosing and starting purifications.                                 *)

LEMMA SelectIn ==
  ASSUME NEW m, NEW p \in selectPurificationPair(m)
  PROVE  p \in Two(Free(m) \ Ready(m))
  BY DEF selectPurificationPair, Two

\* Two pairs that are free and not ready are enough for a selection.
LEMMA SelectSome ==
  ASSUME NEW m \in Memory, Cardinality(Free(m) \ Ready(m)) >= 2
  PROVE  selectPurificationPair(m) # {}
<1> DEFINE free == Free(m) \ Ready(m)
           urgent == {i \in free : m[i].f <= Urgent}
           pool == IF Cardinality(urgent) >= 2 THEN urgent ELSE free
           Level(l) == {i \in pool : m[i].rounds = l}
           levels == {l \in 0..MaxRounds : Cardinality(Level(l)) >= 2}
           from == IF levels = {} THEN pool ELSE Level(Max(levels))
           best == {p \in Two(from) : \A i \in p, j \in from \ p : m[j].f <= m[i].f}
<1>1. DOMAIN m \in SUBSET Slot /\ m \in [DOMAIN m -> Pair] /\ Free(m) \subseteq DOMAIN m
  BY MemoryShape DEF Free
<1>2. pool \subseteq free /\ Cardinality(pool) >= 2
  OBVIOUS
<1>3. free \subseteq DOMAIN m
  BY <1>1
<1>4. levels # {} => Max(levels) \in levels
  <2>1. SUFFICES ASSUME levels # {} PROVE Max(levels) \in levels
    OBVIOUS
  <2>2. levels \subseteq 0..MaxRounds
    OBVIOUS
  <2> HIDE DEF levels
  <2>3. IsFiniteSet(levels) /\ levels \subseteq Nat
    <3>1. MaxRounds \in Int /\ 0 \in Int /\ 0..MaxRounds \subseteq Nat
      BY SwapAssumption
    <3>2. IsFiniteSet(0..MaxRounds)
      BY <3>1, FS_Interval
    <3> QED  BY <2>2, <3>1, <3>2, FS_Subset
  <2> DEFINE id == [l \in levels |-> l]
  <2>4. id \in [levels -> Nat]
    BY <2>3
  <2>5. \E x \in levels : \A y \in levels : id[y] <= id[x]
    <3> HIDE DEF id
    <3> QED  BY <2>1, <2>3, <2>4, HasGreatest
  <2>6. \E x \in levels : \A y \in levels : x >= y
    BY <2>3, <2>5
  <2> QED  BY <2>6 DEF Max
<1>5. from \subseteq pool /\ Cardinality(from) >= 2
  <2> HIDE DEF pool
  <2> QED  BY <1>2, <1>4
<1>6. Two(free) # {}
  <2> HIDE DEF free
  <2>1. IsFiniteSet(free)
    BY <1>1, <1>3, SlotsFinite
  <2> DEFINE g == [i \in free |-> m[i].f]
  <2>2. g \in [free -> Nat]
    BY <1>1, <1>3 DEF Pair
  <2> HIDE DEF g
  <2> QED  BY <2>1, <2>2, TopTwo DEF free
<1>7. best # {}
  <2>1. from \subseteq DOMAIN m
    BY <1>2, <1>3, <1>5
  <2> HIDE DEF from
  <2>2. IsFiniteSet(from)
    BY <1>1, <2>1, SlotsFinite
  <2> DEFINE g == [i \in from |-> m[i].f]
  <2>3. g \in [from -> Nat]
    BY <1>1, <2>1 DEF Pair
  <2>4. \E p \in Two(from) : \A i \in p, j \in from \ p : g[j] <= g[i]
    <3> HIDE DEF g
    <3> QED  BY <1>5, <2>2, <2>3, TopTwo
  <2>5. PICK p \in Two(from) : \A i \in p, j \in from \ p : g[j] <= g[i]
    BY <2>4
  <2>6. p \subseteq from
    BY DEF Two
  <2>7. p \in best
    BY <2>5, <2>6
  <2> QED  BY <2>7
<1>8. selectPurificationPair(m) = IF policy = "naive" THEN Two(free) ELSE best
  BY DEF selectPurificationPair, Worthwhile
<1> HIDE DEF free, best
<1> QED  BY <1>6, <1>7, <1>8

\* The pairs that one call starts on are free and have nothing in common.
LEMMA StartsShape ==
  ASSUME NEW m \in Memory, NEW sel \in Starts(m)
  PROVE  \E n \in Nat :
           /\ sel \in [1..n -> SUBSET Slot]
           /\ \A k \in 1..n : Cardinality(sel[k]) = 2 /\ sel[k] \subseteq Free(m)
           /\ \A j, k \in 1..n : j # k => sel[j] \cap sel[k] = {}
<1> DEFINE Earlier(k) == UNION {sel[j] : j \in 1..(k - 1)}
<1>1. /\ sel \in UNION {[1..n -> Two(Free(m))] : n \in 0..Parallel}
      /\ \A k \in DOMAIN sel : sel[k] \in selectPurificationPair(Reserved(m, Earlier(k)))
  BY DEF Starts
<1>2. PICK n \in 0..Parallel : sel \in [1..n -> Two(Free(m))]
  BY <1>1
<1>3. Free(m) \subseteq Slot
  BY MemoryShape DEF Free
<1>4. n \in Nat
  OBVIOUS
<1>5. \A k \in 1..n : Cardinality(sel[k]) = 2 /\ sel[k] \subseteq Free(m)
  BY <1>2 DEF Two
<1>6. sel \in [1..n -> SUBSET Slot]
  BY <1>2, <1>3, <1>5
<1>7. ASSUME NEW j \in 1..n, NEW k \in 1..n, j < k PROVE sel[j] \cap sel[k] = {}
  <2>1. sel[k] \in selectPurificationPair(Reserved(m, Earlier(k)))
    BY <1>1, <1>2
  <2>2. j \in 1..(k - 1)
    BY <1>7
  <2>3. sel[j] \subseteq Earlier(k)
    BY <2>2
  <2> HIDE DEF Earlier
  <2>4. sel[k] \subseteq Free(Reserved(m, Earlier(k)))
    BY <2>1, SelectIn DEF Two
  <2>5. sel[k] \subseteq Free(m) \ Earlier(k)
    BY <2>4, ReservedMore
  <2> QED  BY <2>3, <2>5
<1>8. \A j, k \in 1..n : j # k => sel[j] \cap sel[k] = {}
  <2> TAKE j, k \in 1..n
  <2> HAVE j # k
  <2>1. CASE j < k
    BY <2>1, <1>7
  <2>2. CASE k < j
    <3>1. sel[k] \cap sel[j] = {}
      BY <2>2, <1>7
    <3> QED  BY <3>1
  <2> QED  BY <2>1, <2>2
<1> QED  BY <1>4, <1>5, <1>6, <1>8

\* Nothing is started only if nothing can be purified.
LEMMA StartsNone ==
  ASSUME NEW m \in Memory, NEW sel \in Starts(m), Len(sel) = 0,
         \A i \in Free(m) \ Ready(m) : m[i].rounds < MaxRounds
  PROVE  ~(Cardinality(Free(m) \ Ready(m)) >= 2)
<1> DEFINE none == UNION {sel[j] : j \in 1..(Len(sel) + 1 - 1)}
           next == selectPurificationPair(Reserved(m, none))
<1>1. Len(sel) = Parallel \/ next = {} \/ \E p \in next : Exhausted(m, p)
  BY DEF Starts
<1>2. Parallel # 0
  BY SwapAssumption DEF Parallel
<1>3. none = {}
  OBVIOUS
<1>4. Reserved(m, none) = m
  <2> HIDE DEF none
  <2>1. m = [i \in DOMAIN m |-> m[i]]
    BY MemoryShape
  <2>2. Reserved(m, none) = [i \in DOMAIN m |-> m[i]]
    BY <1>3 DEF Reserved
  <2> QED  BY <2>1, <2>2
<1>5. next = selectPurificationPair(m)
  <2> HIDE DEF none
  <2> QED  BY <1>4
<1>6. \A p \in next : ~Exhausted(m, p)
  <2> HIDE DEF next
  <2> TAKE p \in next
  <2>1. p \in Two(Free(m) \ Ready(m))
    BY <1>5, SelectIn
  <2>2. p \subseteq Free(m) \ Ready(m)
    BY <2>1 DEF Two
  <2>3. \A i \in p : m[i].rounds \in Nat /\ m[i].rounds < MaxRounds
    <3>1. \A i \in p : m[i] \in Pair
      BY <2>2, MemoryShape DEF Free
    <3> QED  BY <2>2, <3>1 DEF Pair
  <2> QED  BY <2>3, SwapAssumption DEF Exhausted
<1>7. next = {}
  <2> HIDE DEF next
  <2> QED  BY <1>1, <1>2, <1>6
<1> HIDE DEF next
<1> QED  BY <1>5, <1>7, SelectSome

\* All that the starts reserve.
Taken(sel) == UNION Range(sel)

LEMMA StartsHold ==
  ASSUME NEW m \in Memory, NEW sel \in Starts(m), NEW L \in Link, NEW s \in Seq(Event),
         HeldOn(L, Busy(m), s)
  PROVE  /\ Started(L, sel) \in Seq(Event)
         /\ Reserved(m, Taken(sel)) \in Memory
         /\ HeldOn(L, Busy(Reserved(m, Taken(sel))), s \o Started(L, sel))
         /\ \A k \in DOMAIN Started(L, sel) :
              Started(L, sel)[k].type = "PURIFY_DONE" /\ Started(L, sel)[k].link = L
         /\ Started(L, sel) = <<>> =>
              Len(sel) = 0 /\ Reserved(m, Taken(sel)) = m
<1>1. PICK n \in Nat :
        /\ sel \in [1..n -> SUBSET Slot]
        /\ \A k \in 1..n : Cardinality(sel[k]) = 2 /\ sel[k] \subseteq Free(m)
        /\ \A j, k \in 1..n : j # k => sel[j] \cap sel[k] = {}
  BY StartsShape
<1> DEFINE taken == Taken(sel)
           st == Started(L, sel)
<1>2. /\ st \in Seq(Event) /\ Len(st) = n
      /\ \A k \in 1..n : st[k].type = "PURIFY_DONE" /\ st[k].link = L
  BY <1>1, StartedShape
<1>3. DOMAIN st = 1..n
  <2> HIDE DEF st
  <2> QED  BY <1>2, LenProperties
<1>4. taken \subseteq Free(m)
  BY <1>1 DEF Taken, Range
<1>5. \A k \in 1..n : Cardinality(sel[k]) = 2 /\ sel[k] \cap Busy(m) = {}
  BY <1>1 DEF Free, Busy
<1>6. HeldOn(L, Busy(m) \cup taken, s \o st)
  BY <1>1, <1>5, HeldStarted DEF Taken
<1>7. st = <<>> => Len(sel) = 0 /\ taken = {}
  <2>1. SUFFICES ASSUME st = <<>> PROVE Len(sel) = 0 /\ taken = {}
    OBVIOUS
  <2>2. n = 0
    BY <1>2, <2>1
  <2>3. DOMAIN sel = {}
    BY <1>1, <2>2
  <2>4. sel \in [1..0 -> SUBSET Slot]
    BY <1>1, <2>2
  <2> QED  BY <2>3, <2>4 DEF Taken, Range
<1> HIDE DEF taken, st
<1>8. /\ Reserved(m, taken) \in Memory
      /\ Busy(Reserved(m, taken)) = Busy(m) \cup taken
  <2>1. taken \cap DOMAIN m = taken
    BY <1>4 DEF Free
  <2> QED  BY <2>1, ReservedMore
<1>9. taken = {} => Reserved(m, taken) = m
  <2>1. m = [i \in DOMAIN m |-> m[i]]
    BY MemoryShape
  <2> QED  BY <2>1 DEF Reserved
<1> QED  BY <1>2, <1>3, <1>6, <1>7, <1>8, <1>9 DEF taken, st

-----------------------------------------------------------------------------
(* 5. tryScheduleWork.                                                     *)

\* Concatenation by a name that the provers do not look into.
Cat(p, q) == p \o q

LEMMA CatLaws ==
  ASSUME NEW p \in Seq(Event), NEW q \in Seq(Event)
  PROVE  /\ Cat(p, q) \in Seq(Event)
         /\ \A r \in Seq(Event) : Cat(Cat(p, q), r) = Cat(p, Cat(q, r))
<1>1. Cat(p, q) \in Seq(Event)
  BY ConcatProperties DEF Cat
<1>2. ASSUME NEW r \in Seq(Event) PROVE (p \o q) \o r = p \o (q \o r)
  BY ConcatAssociative
<1> QED  BY <1>1, <1>2 DEF Cat

LEMMA TailCat ==
  ASSUME NEW s \in Seq(Event), NEW t \in Seq(Event), s # <<>>
  PROVE  Tail(s \o t) = Tail(s) \o t
<1> DEFINE c == s \o t
           l == Tail(c)
           r == Tail(s) \o t
<1>1. /\ Len(s) \in Nat \ {0} /\ Len(t) \in Nat
      /\ c \in Seq(Event) /\ Len(c) = Len(s) + Len(t)
      /\ \A i \in 1..(Len(s) + Len(t)) : c[i] = IF i <= Len(s) THEN s[i] ELSE t[i - Len(s)]
  BY ConcatProperties, EmptySeq, LenProperties
<1>2. c # <<>>
  <2> HIDE DEF c
  <2> QED  BY <1>1, EmptySeq
<1>3. l \in Seq(Event) /\ Len(l) = Len(c) - 1 /\ \A i \in 1..Len(l) : l[i] = c[i + 1]
  <2> HIDE DEF c
  <2> QED  BY <1>1, <1>2, HeadTailProperties
<1>4. /\ Tail(s) \in Seq(Event) /\ Len(Tail(s)) = Len(s) - 1
      /\ \A i \in 1..Len(Tail(s)) : Tail(s)[i] = s[i + 1]
  BY HeadTailProperties
<1>5. /\ r \in Seq(Event) /\ Len(r) = (Len(s) - 1) + Len(t)
      /\ \A i \in 1..((Len(s) - 1) + Len(t)) :
           r[i] = IF i <= Len(s) - 1 THEN Tail(s)[i] ELSE t[i - (Len(s) - 1)]
  BY <1>4, ConcatProperties
<1> HIDE DEF c, l, r
<1>6. Len(l) = Len(r)
  BY <1>1, <1>3, <1>5
<1>7. ASSUME NEW i \in 1..Len(l) PROVE l[i] = r[i]
  <2>1. i + 1 \in 1..(Len(s) + Len(t)) /\ i \in 1..((Len(s) - 1) + Len(t)) /\ i \in Nat \ {0}
    BY <1>1, <1>3
  <2>2. l[i] = c[i + 1]
    BY <1>3
  <2>3. CASE i <= Len(s) - 1
    <3>1. i + 1 <= Len(s) /\ i \in 1..Len(Tail(s))
      BY <2>1, <2>3, <1>1, <1>4
    <3>2. c[i + 1] = s[i + 1]
      BY <1>1, <2>1, <3>1
    <3>3. r[i] = Tail(s)[i]
      BY <1>5, <2>1, <2>3
    <3> QED  BY <1>4, <2>2, <3>1, <3>2, <3>3
  <2>4. CASE ~(i <= Len(s) - 1)
    <3>1. ~(i + 1 <= Len(s)) /\ (i + 1) - Len(s) = i - (Len(s) - 1)
      BY <2>1, <2>4, <1>1
    <3>2. c[i + 1] = t[(i + 1) - Len(s)]
      BY <1>1, <2>1, <3>1
    <3>3. r[i] = t[i - (Len(s) - 1)]
      BY <1>5, <2>1, <2>4
    <3> QED  BY <2>2, <3>1, <3>2, <3>3
  <2> QED  BY <2>3, <2>4
<1>8. l = r
  BY <1>3, <1>5, <1>6, <1>7, SeqEqual
<1> QED  BY <1>8 DEF c, l, r

\* An event leaves the queue and pushes what follows from it.
Pushes(a, x, y, z) == later' = Queue \o a \o x \o y \o z

LEMMA EventsAfter ==
  ASSUME due \in Seq(Event), later \in Seq(Event), events # <<>>,
         due' = Tail(IF TimePasses THEN later ELSE due),
         NEW a \in Seq(Event), NEW x \in Seq(Event), NEW y \in Seq(Event),
         NEW z \in Seq(Event), Pushes(a, x, y, z)
  PROVE  /\ due' \in Seq(Event) /\ later' \in Seq(Event) /\ Tail(events) \in Seq(Event)
         /\ events' = Tail(events) \o a \o x \o y \o z
<1> DEFINE d == Tail(IF TimePasses THEN later ELSE due)
<1>1. <<>> \in Seq(Event)
  BY EmptySeq
<1>2. Queue \in Seq(Event) /\ d \in Seq(Event) /\ Tail(events) = d \o Queue
  <2>1. CASE due = <<>>
    <3>1. events = later /\ Queue = <<>> /\ d = Tail(later)
      BY <2>1, ConcatEmptySeq DEF events, Queue, TimePasses
    <3>2. Tail(later) \in Seq(Event)
      BY <3>1, HeadTailProperties
    <3>3. Tail(later) \o <<>> = Tail(later)
      BY <3>2, ConcatEmptySeq
    <3> HIDE DEF d
    <3> QED  BY <1>1, <3>1, <3>2, <3>3
  <2>2. CASE due # <<>>
    <3>1. Queue = later /\ d = Tail(due) /\ Tail(due) \in Seq(Event)
      BY <2>2, HeadTailProperties DEF Queue, TimePasses
    <3>2. Tail(events) = Tail(due) \o later
      BY <2>2, TailCat DEF events
    <3> HIDE DEF d
    <3> QED  BY <3>1, <3>2
  <2> QED  BY <2>1, <2>2
<1> DEFINE q == Queue
           qa == Cat(q, a)
           qax == Cat(qa, x)
           qaxy == Cat(qax, y)
<1> HIDE DEF d, q
<1>3. q \in Seq(Event) /\ d \in Seq(Event) /\ Cat(d, q) = Tail(events)
  BY <1>2 DEF q, Cat
<1>a. qa \in Seq(Event) /\ qax \in Seq(Event) /\ qaxy \in Seq(Event)
  BY <1>3, CatLaws
<1>b. Cat(d, qa) = Cat(Cat(d, q), a)
  <2>1. \A r \in Seq(Event) : Cat(Cat(d, q), r) = Cat(d, Cat(q, r))
    <3> HIDE DEF qa, qax, qaxy
    <3> QED  BY <1>3, CatLaws
  <2> QED  BY <2>1
<1> HIDE DEF qa
<1>c. Cat(d, Cat(qa, x)) = Cat(Cat(d, qa), x)
  BY <1>3, <1>a, CatLaws
<1> HIDE DEF qax
<1>d. Cat(d, Cat(qax, y)) = Cat(Cat(d, qax), y)
  BY <1>3, <1>a, CatLaws
<1> HIDE DEF qaxy
<1>e. Cat(d, Cat(qaxy, z)) = Cat(Cat(d, qaxy), z)
  BY <1>3, <1>a, CatLaws
<1>f. Cat(d, Cat(Cat(Cat(Cat(q, a), x), y), z)) = Cat(Cat(Cat(Cat(Tail(events), a), x), y), z)
  BY <1>3, <1>b, <1>c, <1>d, <1>e DEF qa, qax, qaxy
<1>4. events' = Tail(events) \o a \o x \o y \o z
  <2>1. events' = d \o (q \o a \o x \o y \o z)
    BY DEF events, d, q, Pushes
  <2> QED  BY <1>f, <2>1 DEF Cat
<1>5. later' \in Seq(Event)
  BY <1>2, ConcatProperties DEF Pushes
<1>6. Tail(events) \in Seq(Event)
  BY <1>2, ConcatProperties
<1> QED  BY <1>2, <1>4, <1>5, <1>6 DEF d

\* What the starts of both links and a swap leave behind.
LEMMA PurifyKeeps ==
  ASSUME due \in Seq(Event), later \in Seq(Event), events # <<>>,
         due' = Tail(IF TimePasses THEN later ELSE due),
         NEW ms \in [Link -> Memory], Held(ms, Tail(events)), AllMeetTarget(events),
         NEW again \in Seq(Event), \A k \in DOMAIN again : again[k].type = "ATTEMPT",
         NEW swap \in Seq(Event), \A k \in DOMAIN swap : swap[k].type = "SWAP_DONE",
         AllMeetTarget(swap), Purify(ms, again, swap)
  PROVE  /\ TypeOK' /\ Held(mem', events') /\ AllMeetTarget(events')
         /\ events' = <<>> =>
              /\ swap = <<>>
              /\ \A L \in Link : mem'[L] = ms[L] /\ \E sel \in Starts(ms[L]) : Len(sel) = 0
<1>1. PICK a \in Starts(ms["AR"]), b \in Starts(ms["RB"]) :
        /\ mem' = [L \in Link |-> Reserved(ms[L], UNION Range(IF L = "AR" THEN a ELSE b))]
        /\ later' = Queue \o again \o Started("AR", a) \o Started("RB", b) \o swap
  BY DEF Purify
<1> DEFINE t == Tail(events)
           x == Started("AR", a)
           y == Started("RB", b)
           ta == t \o again
           tax == ta \o x
           taxy == tax \o y
           all == taxy \o swap
<1>2. /\ "AR" \in Link /\ "RB" \in Link /\ "AR" # "RB" /\ \A L \in Link : L = "AR" \/ L = "RB"
      /\ ms["AR"] \in Memory /\ ms["RB"] \in Memory
  BY DEF Link
<1>3. t \in Seq(Event) /\ AllMeetTarget(t)
  <2>1. events \in Seq(Event)
    BY ConcatProperties DEF events
  <2>2. t \in Seq(Event)
    BY <2>1, HeadTailProperties
  <2>3. AllMeetTarget(t)
    BY <2>1, MeetTail
  <2> QED  BY <2>2, <2>3
<1>4. HeldOn("AR", Busy(ms["AR"]), t) /\ HeldOn("RB", Busy(ms["RB"]), t)
  BY <1>2 DEF Held
<1> HIDE DEF t
<1>5. ta \in Seq(Event) /\ HeldOn("AR", Busy(ms["AR"]), ta) /\ HeldOn("RB", Busy(ms["RB"]), ta)
  <2>1. \A k \in DOMAIN again : ~IsOp(again[k], "AR") /\ ~IsOp(again[k], "RB")
    BY DEF IsOp
  <2>2. ta \in Seq(Event)
    BY <1>3, ConcatProperties
  <2> QED  BY <1>3, <1>4, <2>1, <2>2, HeldOther
<1> HIDE DEF ta
<1> DEFINE ra == Reserved(ms["AR"], Taken(a))
           rb == Reserved(ms["RB"], Taken(b))
<1>6. /\ x \in Seq(Event) /\ ra \in Memory /\ HeldOn("AR", Busy(ra), tax)
      /\ \A k \in DOMAIN x : x[k].type = "PURIFY_DONE" /\ x[k].link = "AR"
      /\ x = <<>> => Len(a) = 0 /\ ra = ms["AR"]
  BY <1>1, <1>2, <1>5, StartsHold
<1>7. HeldOn("RB", Busy(ms["RB"]), tax) /\ tax \in Seq(Event)
  <2> HIDE DEF x
  <2>1. \A k \in DOMAIN x : ~IsOp(x[k], "RB")
    BY <1>2, <1>6 DEF IsOp
  <2>2. tax \in Seq(Event)
    BY <1>5, <1>6, ConcatProperties
  <2> QED  BY <1>5, <1>6, <2>1, <2>2, HeldOther
<1> HIDE DEF ra, x, tax
<1>8. /\ y \in Seq(Event) /\ rb \in Memory /\ HeldOn("RB", Busy(rb), taxy)
      /\ \A k \in DOMAIN y : y[k].type = "PURIFY_DONE" /\ y[k].link = "RB"
      /\ y = <<>> => Len(b) = 0 /\ rb = ms["RB"]
  BY <1>1, <1>2, <1>7, StartsHold
<1>9. HeldOn("AR", Busy(ra), taxy) /\ taxy \in Seq(Event)
  <2> HIDE DEF y
  <2>1. \A k \in DOMAIN y : ~IsOp(y[k], "AR")
    BY <1>2, <1>8 DEF IsOp
  <2>2. taxy \in Seq(Event)
    BY <1>7, <1>8, ConcatProperties
  <2> QED  BY <1>6, <1>7, <1>8, <2>1, <2>2, HeldOther
<1> HIDE DEF rb, y, taxy
<1>10. HeldOn("AR", Busy(ra), all) /\ HeldOn("RB", Busy(rb), all) /\ all \in Seq(Event)
  <2>1. \A k \in DOMAIN swap : ~IsOp(swap[k], "AR") /\ ~IsOp(swap[k], "RB")
    BY DEF IsOp
  <2>2. all \in Seq(Event)
    BY <1>9, ConcatProperties
  <2> QED  BY <1>8, <1>9, <2>1, <2>2, HeldOther
<1>11. mem'["AR"] = ra /\ mem'["RB"] = rb /\ mem' = [L \in Link |-> mem'[L]]
  BY <1>1, <1>2 DEF ra, rb, Taken
<1>12. due' \in Seq(Event) /\ later' \in Seq(Event) /\ events' = all
  <2>1. Pushes(again, x, y, swap)
    BY <1>1 DEF x, y, Pushes
  <2>2. /\ due' \in Seq(Event) /\ later' \in Seq(Event)
        /\ events' = t \o again \o x \o y \o swap
    <3>1. x \in Seq(Event) /\ y \in Seq(Event)
      BY <1>6, <1>8
    <3>2. /\ due' \in Seq(Event) /\ later' \in Seq(Event)
          /\ events' = Tail(events) \o again \o x \o y \o swap
      BY <2>1, <3>1, EventsAfter, SMTT(30)
    <3> QED  BY <3>2 DEF t
  <2> QED  BY <2>2 DEF ta, tax, taxy
<1>13. TypeOK'
  <2>1. mem' \in [Link -> Memory]
    BY <1>2, <1>6, <1>8, <1>11
  <2> QED  BY <1>12, <2>1 DEF TypeOK
<1>14. Held(mem', events')
  <2> HIDE DEF all
  <2> QED  BY <1>2, <1>10, <1>11, <1>12 DEF Held
<1>15. AllMeetTarget(events')
  <2>1. AllMeetTarget(again) /\ AllMeetTarget(x) /\ AllMeetTarget(y)
    BY <1>6, <1>8 DEF AllMeetTarget, MeetsTarget
  <2>2. AllMeetTarget(ta)
    BY <1>3, <2>1, MeetCat DEF ta
  <2>3. AllMeetTarget(tax)
    BY <1>5, <1>6, <2>1, <2>2, MeetCat DEF tax
  <2>4. AllMeetTarget(taxy)
    BY <1>7, <1>8, <2>1, <2>3, MeetCat DEF taxy
  <2>5. AllMeetTarget(all)
    BY <1>9, <2>4, MeetCat
  <2> QED  BY <1>12, <2>5
<1>16. ASSUME events' = <<>>
       PROVE  /\ swap = <<>>
              /\ \A L \in Link : mem'[L] = ms[L] /\ \E sel \in Starts(ms[L]) : Len(sel) = 0
  <2>1. all = <<>>
    BY <1>12, <1>16
  <2>2. swap = <<>> /\ taxy = <<>>
    BY <1>9, <2>1, ConcatEqualIffEmpty
  <2>3. y = <<>> /\ tax = <<>>
    BY <1>7, <1>8, <2>2, ConcatEqualIffEmpty DEF taxy
  <2>4. x = <<>>
    BY <1>5, <1>6, <2>3, ConcatEqualIffEmpty DEF tax
  <2> QED  BY <1>1, <1>2, <1>6, <1>8, <1>11, <2>2, <2>3, <2>4
<1> QED  BY <1>13, <1>14, <1>15, <1>16

\* When the queue runs empty, the memories hold no work.
LEMMA EmptyQueue ==
  ASSUME NEW ms \in [Link -> Memory], Held(ms, <<>>), \E L \in Link : Ready(ms[L]) = {},
         mem' = ms, \A L \in Link : \E sel \in Starts(ms[L]) : Len(sel) = 0,
         NobodyWaits'
  PROVE  NoWorkLeftBehind'
<1>1. LinkTarget \in Nat
  BY LinkTargetIs
<1>2. ASSUME NEW L \in Link
      PROVE  /\ ms[L] \in Memory /\ Free(ms[L]) = DOMAIN ms[L]
             /\ \A i \in DOMAIN ms[L] : ms[L][i].f \in Nat
  <2>1. ms[L] \in Memory
    OBVIOUS
  <2>2. HeldOn(L, Busy(ms[L]), <<>>)
    BY DEF Held
  <2>3. Busy(ms[L]) = {}
    BY <2>2 DEF HeldOn
  <2>4. Free(ms[L]) = DOMAIN ms[L]
    BY <2>3 DEF Busy, Free
  <2>5. \A i \in DOMAIN ms[L] : ms[L][i] \in Pair
    BY <2>1, MemoryShape
  <2> QED  BY <2>1, <2>4, <2>5 DEF Pair
<1>3. \E L \in Link : \A i \in DOMAIN ms[L] : ms[L][i].f < LinkTarget
  <2>1. PICK L \in Link : Ready(ms[L]) = {}
    OBVIOUS
  <2> QED  BY <1>1, <1>2, <2>1 DEF Ready
<1>4. ASSUME NEW L \in Link,
             \A i \in {i \in DOMAIN ms[L] : ms[L][i].f < LinkTarget} : ms[L][i].rounds < MaxRounds
      PROVE  Cardinality({i \in DOMAIN ms[L] : ms[L][i].f < LinkTarget}) < 2
  <2> DEFINE low == {i \in DOMAIN ms[L] : ms[L][i].f < LinkTarget}
  <2>1. low = Free(ms[L]) \ Ready(ms[L])
    BY <1>1, <1>2 DEF Ready
  <2>2. low \in SUBSET Slot
    BY <1>2, MemoryShape
  <2> HIDE DEF low
  <2>3. Cardinality(low) \in Nat
    BY <2>2, SlotsFinite
  <2>4. ~(Cardinality(low) >= 2)
    <3>1. \A i \in low : ms[L][i].rounds < MaxRounds
      BY <1>4 DEF low
    <3>2. PICK sel \in Starts(ms[L]) : Len(sel) = 0
      OBVIOUS
    <3> QED  BY <1>2, <2>1, <3>1, <3>2, StartsNone
  <2>5. Cardinality(low) < 2
    BY <2>3, <2>4
  <2> QED  BY <2>5 DEF low
<1>5. LinkTarget' = LinkTarget
  BY DEF LinkTarget
<1> QED  BY <1>3, <1>4, <1>5 DEF NoWorkLeftBehind, NobodyWaits

\* When no link waits, a pair of each leaves its memory for a swap or none
\* does.
LEMMA BothOrNone ==
  ASSUME NobodyWaits, NEW found, NEW again, tryScheduleWork(found, again)
  PROVE  LET ms == [L \in Link |-> gc(found[L])]
         IN /\ NobodyWaits'
            /\ \/ (\E L \in Link : Ready(ms[L]) = {}) /\ Purify(ms, again, <<>>)
               \/ \E top \in [Link -> Slot] :
                    /\ \A L \in Link : top[L] \in takeReady(ms[L])
                    /\ Purify([L \in Link |-> Without(ms[L], {top[L]})], again,
                              <<[type |-> "SWAP_DONE",
                                 pairs |-> [L \in Link |-> ms[L][top[L]].f]]>>)
<1> DEFINE ms == [L \in Link |-> gc(found[L])]
           held == DOMAIN readyForSwap
           takers == Takers(ms) \ held
           out(best) == [L \in held \cup takers |->
                           IF L \in held THEN Waiting(L) ELSE ms[L][best[L]].f]
           rest(best) == [L \in Link |->
                            IF L \in takers THEN Without(ms[L], {best[L]}) ELSE ms[L]]
           swaps(best) == DOMAIN out(best) = Link
<1>1. PICK best \in [takers -> Slot] :
        /\ \A L \in takers : best[L] \in takeReady(ms[L])
        /\ Purify(rest(best), again,
                  IF swaps(best) THEN <<[type |-> "SWAP_DONE", pairs |-> out(best)]>> ELSE <<>>)
        /\ readyForSwap' = IF swaps(best) THEN <<>> ELSE out(best)
  BY DEF tryScheduleWork
<1> DEFINE Outcome ==
             \/ (\E L \in Link : Ready(ms[L]) = {}) /\ Purify(ms, again, <<>>)
             \/ \E top \in [Link -> Slot] :
                  /\ \A L \in Link : top[L] \in takeReady(ms[L])
                  /\ Purify([L \in Link |-> Without(ms[L], {top[L]})], again,
                            <<[type |-> "SWAP_DONE",
                               pairs |-> [L \in Link |-> ms[L][top[L]].f]]>>)
<1>s. SUFFICES NobodyWaits' /\ Outcome
  OBVIOUS
<1>0. ms = [L \in Link |-> ms[L]]
  OBVIOUS
<1> HIDE DEF ms
<1>2. held = {} /\ Link # {}
  BY DEF NobodyWaits, Link
<1>3. CASE \A L \in Link : Ready(ms[L]) # {}
  <2>1. takers = Link
    BY <1>2, <1>3 DEF Takers
  <2>2. swaps(best)
    BY <1>2, <2>1
  <2>3. out(best) = [L \in Link |-> ms[L][best[L]].f]
    BY <1>2, <2>1
  <2>4. rest(best) = [L \in Link |-> Without(ms[L], {best[L]})]
    BY <2>1
  <2>5. NobodyWaits'
    BY <1>1, <2>2 DEF NobodyWaits
  <2>6. best \in [Link -> Slot] /\ \A L \in Link : best[L] \in takeReady(ms[L])
    BY <1>1, <2>1
  <2>7. Purify([L \in Link |-> Without(ms[L], {best[L]})], again,
               <<[type |-> "SWAP_DONE", pairs |-> [L \in Link |-> ms[L][best[L]].f]]>>)
    <3> DEFINE all == [L \in Link |-> Without(ms[L], {best[L]})]
               levels == [L \in Link |-> ms[L][best[L]].f]
    <3>1. Purify(rest(best), again, <<[type |-> "SWAP_DONE", pairs |-> out(best)]>>)
      BY <1>1, <2>2
    <3>2. rest(best) = all /\ out(best) = levels
      BY <2>3, <2>4
    <3> HIDE DEF all, levels, rest, out
    <3>3. Purify(all, again, <<[type |-> "SWAP_DONE", pairs |-> levels]>>)
      BY <3>1, <3>2
    <3> QED  BY <3>3 DEF all, levels
  <2> QED  BY <2>5, <2>6, <2>7
<1>4. CASE \E L \in Link : Ready(ms[L]) = {}
  <2>1. takers = {}
    BY <1>4 DEF Takers
  <2>2. ~swaps(best) /\ DOMAIN out(best) = {}
    BY <1>2, <2>1
  <2>3. rest(best) = [L \in Link |-> ms[L]]
    BY <2>1
  <2>4. rest(best) = ms
    BY <1>0, <2>3
  <2>5. NobodyWaits'
    BY <1>1, <2>2 DEF NobodyWaits
  <2>6. Purify(rest(best), again, <<>>)
    BY <1>1, <2>2
  <2> HIDE DEF rest
  <2>7. Purify(ms, again, <<>>)
    BY <2>4, <2>6
  <2> QED  BY <1>4, <2>5, <2>7
<1> QED  BY <1>3, <1>4

LEMMA WorkScheduled ==
  ASSUME due \in Seq(Event), later \in Seq(Event), events # <<>>, NobodyWaits,
         due' = Tail(IF TimePasses THEN later ELSE due), AllMeetTarget(events),
         NEW found \in [Link -> Memory], Held(found, Tail(events)),
         NEW again \in Seq(Event), \A k \in DOMAIN again : again[k].type = "ATTEMPT",
         tryScheduleWork(found, again)
  PROVE  IInv'
<1> DEFINE ms == [L \in Link |-> gc(found[L])]
           rest(top) == [L \in Link |-> Without(ms[L], {top[L]})]
           swap(top) == <<[type |-> "SWAP_DONE", pairs |-> [L \in Link |-> ms[L][top[L]].f]]>>
<1>0. NobodyWaits'
  BY BothOrNone
<1>1. \/ (\E L \in Link : Ready(ms[L]) = {}) /\ Purify(ms, again, <<>>)
      \/ \E top \in [Link -> Slot] :
           /\ \A L \in Link : top[L] \in takeReady(ms[L])
           /\ Purify(rest(top), again, swap(top))
  BY BothOrNone
<1>2. \A L \in Link : ms[L] \in Memory /\ Busy(ms[L]) = Busy(found[L])
  BY CollectedKeeps
<1>3. ms \in [Link -> Memory]
  BY <1>2
<1> HIDE DEF ms
<1>4. Held(ms, Tail(events))
  BY <1>2 DEF Held
<1>5. CASE (\E L \in Link : Ready(ms[L]) = {}) /\ Purify(ms, again, <<>>)
  <2>1. <<>> \in Seq(Event) /\ DOMAIN <<>> = {}
    BY EmptySeq
  <2>2. AllMeetTarget(<<>>)
    BY <2>1 DEF AllMeetTarget
  <2>3. /\ TypeOK' /\ Held(mem', events') /\ AllMeetTarget(events')
        /\ events' = <<>> =>
             \A L \in Link : mem'[L] = ms[L] /\ \E sel \in Starts(ms[L]) : Len(sel) = 0
    BY <1>3, <1>4, <1>5, <2>1, <2>2, PurifyKeeps
  <2>4. ASSUME events' = <<>> PROVE NoWorkLeftBehind'
    <3>1. mem' = ms
      BY <1>3, <2>3, <2>4 DEF TypeOK
    <3>2. Held(ms, <<>>)
      BY <2>3, <2>4, <3>1
    <3> QED  BY <1>0, <1>3, <1>5, <2>3, <2>4, <3>1, <3>2, EmptyQueue
  <2>5. NoWorkLeftBehind'
    <3>1. CASE events' = <<>>
      BY <3>1, <2>4
    <3>2. CASE events' # <<>>
      BY <3>2 DEF NoWorkLeftBehind
    <3> QED  BY <3>1, <3>2
  <2> QED  BY <1>0, <2>3, <2>5 DEF IInv, Held, AllMeetTarget
<1>6. ASSUME NEW top \in [Link -> Slot], \A L \in Link : top[L] \in takeReady(ms[L]),
             Purify(rest(top), again, swap(top))
      PROVE  IInv'
  <2> DEFINE r == rest(top)
             pairs == [L \in Link |-> ms[L][top[L]].f]
             e == [type |-> "SWAP_DONE", pairs |-> pairs]
  <2>2. \A L \in Link : top[L] \in Ready(ms[L])
    BY <1>6 DEF takeReady
  <2>3. ASSUME NEW L \in Link
        PROVE  /\ Without(ms[L], {top[L]}) \in Memory
               /\ Busy(Without(ms[L], {top[L]})) = Busy(ms[L])
               /\ ms[L][top[L]].f \in Nat /\ ms[L][top[L]].f >= LinkTarget
    <3>1. top[L] \in Free(ms[L]) /\ ms[L][top[L]].f >= LinkTarget
      BY <2>2 DEF Ready
    <3>2. {top[L]} \cap Busy(ms[L]) = {}
      BY <3>1 DEF Free, Busy
    <3>3. ms[L][top[L]] \in Pair
      BY <1>2, <3>1, MemoryShape DEF Free
    <3>4. Without(ms[L], {top[L]}) \in Memory /\ Busy(Without(ms[L], {top[L]})) = Busy(ms[L])
      BY <1>2, <3>2, WithoutFree
    <3> QED  BY <3>1, <3>3, <3>4 DEF Pair
  <2>4. r \in [Link -> Memory] /\ \A L \in Link : Busy(r[L]) = Busy(ms[L])
    BY <2>3
  <2>5. pairs \in [Link -> Nat] /\ \A L \in Link : pairs[L] \in Nat /\ (Attainable => pairs[L] >= Target + 2)
    BY <2>3, LinkTargetIs
  <2> HIDE DEF r, pairs
  <2>6. e \in Event /\ e.type = "SWAP_DONE" /\ e.pairs = pairs
    BY <2>5 DEF Event
  <2>7. MeetsTarget(e)
    <3>1. ASSUME Attainable
          PROVE  Swapped(Dephased(pairs["AR"]), Dephased(pairs["RB"])) >= Target
      <4>1. /\ pairs["AR"] \in Nat /\ pairs["AR"] >= Target + 2
            /\ pairs["RB"] \in Nat /\ pairs["RB"] >= Target + 2
        BY <2>5, <3>1 DEF Link
      <4>2. Target \in Nat
        BY SwapAssumption
      <4> QED  BY <4>1, <4>2 DEF Swapped, Dephased
    <3> QED  BY <2>6, <3>1 DEF MeetsTarget
  <2>8. swap(top) = <<e>>
    BY DEF pairs
  <2> HIDE DEF e, swap
  <2>9. <<e>> \in Seq(Event) /\ DOMAIN <<e>> = {1} /\ <<e>>[1] = e /\ <<e>> # <<>>
    BY <2>6
  <2>10. AllMeetTarget(<<e>>) /\ \A k \in DOMAIN <<e>> : <<e>>[k].type = "SWAP_DONE"
    BY <2>6, <2>7, <2>9 DEF AllMeetTarget
  <2>11. Held(r, Tail(events))
    BY <1>4, <2>4 DEF Held
  <2> DEFINE z == <<e>>
  <2>12. Purify(r, again, z)
    BY <1>6, <2>8 DEF r
  <2> HIDE DEF z
  <2>13. /\ TypeOK' /\ Held(mem', events') /\ AllMeetTarget(events')
         /\ events' = <<>> => z = <<>>
    <3>1. z \in Seq(Event) /\ (\A k \in DOMAIN z : z[k].type = "SWAP_DONE") /\ AllMeetTarget(z)
      BY <2>9, <2>10 DEF z
    <3> QED  BY <2>4, <2>11, <2>12, <3>1, PurifyKeeps
  <2>14. NoWorkLeftBehind'
    BY <2>9, <2>13 DEF z, NoWorkLeftBehind
  <2> QED  BY <1>0, <2>13, <2>14 DEF IInv, Held, AllMeetTarget
<1> HIDE DEF rest, swap
<1> QED  BY <1>1, <1>5, <1>6

-----------------------------------------------------------------------------
(* 6. The events.                                                          *)

\* Time costs no reserved pair.
LEMMA FoundKeeps ==
  ASSUME TypeOK, NEW ms \in Found
  PROVE  ms \in [Link -> Memory] /\ \A L \in Link : Busy(ms[L]) = Busy(mem[L])
<1>1. CASE ~TimePasses
  BY <1>1 DEF TypeOK, Found
<1>2. CASE TimePasses
  <2>1. PICK lost \in [Link -> SUBSET Slot] :
          /\ \A L \in Link : lost[L] \subseteq Free(mem[L])
          /\ ms = [L \in Link |-> gc(Advanced(mem[L], lost[L]))]
    BY <1>2 DEF Found
  <2>2. ASSUME NEW L \in Link
        PROVE  /\ gc(Advanced(mem[L], lost[L])) \in Memory
               /\ Busy(gc(Advanced(mem[L], lost[L]))) = Busy(mem[L])
    <3> DEFINE old == Advanced(mem[L], lost[L])
    <3>1. mem[L] \in Memory /\ lost[L] \subseteq Free(mem[L])
      BY <2>1 DEF TypeOK
    <3>2. old \in Memory /\ Busy(old) = Busy(mem[L])
      BY <3>1, AdvancedKeeps
    <3> HIDE DEF old
    <3>3. gc(old) \in Memory /\ Busy(gc(old)) = Busy(mem[L])
      BY <3>2, CollectedKeeps
    <3> QED  BY <3>3 DEF old
  <2> QED  BY <2>1, <2>2
<1> QED  BY <1>1, <1>2

LEMMA Arrives ==
  ASSUME IInv, NEW type, Shift(type)
  PROVE  /\ due \in Seq(Event) /\ later \in Seq(Event) /\ events # <<>>
         /\ due' = Tail(IF TimePasses THEN later ELSE due) /\ AllMeetTarget(events)
         /\ events \in Seq(Event) /\ Head(events) \in Event /\ Head(events).type = type
         /\ Held(mem, events) /\ TypeOK /\ NobodyWaits
<1>1. events \in Seq(Event)
  BY ConcatProperties DEF events, IInv, TypeOK
<1>2. Head(events) \in Event
  BY <1>1, HeadTailProperties DEF Shift
<1> QED  BY <1>1, <1>2 DEF IInv, TypeOK, Shift

\* An event that ends no purification, with memories that kept what is
\* reserved.
LEMMA Ordinary ==
  ASSUME IInv, NEW type, Shift(type), type # "PURIFY_DONE",
         NEW found \in [Link -> Memory], \A L \in Link : Busy(found[L]) = Busy(mem[L]),
         NEW again \in Seq(Event), \A k \in DOMAIN again : again[k].type = "ATTEMPT",
         tryScheduleWork(found, again)
  PROVE  IInv'
<1>1. /\ due \in Seq(Event) /\ later \in Seq(Event) /\ events # <<>>
      /\ due' = Tail(IF TimePasses THEN later ELSE due) /\ AllMeetTarget(events)
      /\ events \in Seq(Event) /\ Head(events).type = type /\ Held(mem, events) /\ NobodyWaits
  BY Arrives
<1>2. Held(found, Tail(events))
  <2>1. SUFFICES ASSUME NEW L \in Link PROVE HeldOn(L, Busy(found[L]), Tail(events))
    BY DEF Held
  <2>2. HeldOn(L, Busy(found[L]), events) /\ ~IsOp(Head(events), L)
    BY <1>1 DEF Held, IsOp
  <2> QED  BY <1>1, <2>2, HeldTail
<1> QED  BY <1>1, <1>2, WorkScheduled

LEMMA AttemptAgain ==
  ASSUME IInv, Shift("ATTEMPT")
  PROVE  /\ Head(events).link \in Link /\ <<Head(events)>> \in Seq(Event)
         /\ \A k \in DOMAIN <<Head(events)>> : <<Head(events)>>[k].type = "ATTEMPT"
         /\ <<>> \in Seq(Event) /\ DOMAIN <<>> = {}
<1> DEFINE h == Head(events)
<1>1. h \in Event /\ h.type = "ATTEMPT"
  BY Arrives
<1> HIDE DEF h
<1>2. h.link \in Link
  BY <1>1 DEF Event
<1>3. <<h>> \in Seq(Event) /\ \A k \in DOMAIN <<h>> : <<h>>[k].type = "ATTEMPT"
  BY <1>1
<1>4. <<>> \in Seq(Event) /\ DOMAIN <<>> = {}
  BY EmptySeq
<1> QED  BY <1>2, <1>3, <1>4 DEF h

LEMMA AttemptKeeps ==
  ASSUME IInv, AttemptOver \/ AttemptDeferred \/ AttemptMade
  PROVE  IInv'
<1> DEFINE h == Head(events)
           again == <<h>>
<1>1. Shift("ATTEMPT") /\ TypeOK /\ "ATTEMPT" # "PURIFY_DONE"
  BY DEF AttemptOver, AttemptDeferred, AttemptMade, IInv
<1>2. /\ h.link \in Link /\ again \in Seq(Event)
      /\ \A k \in DOMAIN again : again[k].type = "ATTEMPT"
      /\ <<>> \in Seq(Event) /\ DOMAIN <<>> = {}
  BY <1>1, AttemptAgain
<1> HIDE DEF again
<1>3. CASE AttemptOver
  <2>1. PICK ms \in Found : tryScheduleWork(ms, <<>>)
    BY <1>3 DEF AttemptOver
  <2>2. ms \in [Link -> Memory] /\ \A L \in Link : Busy(ms[L]) = Busy(mem[L])
    BY <1>1, FoundKeeps
  <2> QED  BY <1>1, <1>2, <2>1, <2>2, Ordinary
<1>4. CASE AttemptDeferred
  <2>1. PICK ms \in Found : tryScheduleWork(ms, again)
    BY <1>4 DEF AttemptDeferred, again
  <2>2. ms \in [Link -> Memory] /\ \A L \in Link : Busy(ms[L]) = Busy(mem[L])
    BY <1>1, FoundKeeps
  <2> QED  BY <1>1, <1>2, <2>1, <2>2, Ordinary
<1>5. CASE AttemptMade
  <2> DEFINE K == h.link
             evicts == policy = "smart"
  <2>1. PICK ms \in Found : \E n : \E m \in Placed(ms[K], FreshPair, n, evicts) :
          tryScheduleWork([ms EXCEPT ![K] = m], again)
    BY <1>5 DEF AttemptMade, again
  <2>n. PICK n : \E m \in Placed(ms[K], FreshPair, n, evicts) :
          tryScheduleWork([ms EXCEPT ![K] = m], again)
    BY <2>1
  <2>2. PICK m \in Placed(ms[K], FreshPair, n, evicts) :
          tryScheduleWork([ms EXCEPT ![K] = m], again)
    BY <2>n
  <2>3. ms \in [Link -> Memory] /\ \A L \in Link : Busy(ms[L]) = Busy(mem[L])
    BY <1>1, FoundKeeps
  <2>4. FreshPair \in Pair /\ ~FreshPair.reserved
    BY SwapAssumption DEF FreshPair, Pair
  <2>5. m \in Memory /\ Busy(m) = Busy(ms[K])
    <3>1. ms[K] \in Memory
      BY <1>2, <2>3
    <3> QED  BY <2>4, <3>1, PlacedKeeps
  <2> DEFINE found == [ms EXCEPT ![K] = m]
  <2>6. found \in [Link -> Memory] /\ \A L \in Link : Busy(found[L]) = Busy(mem[L])
    BY <1>2, <2>3, <2>5
  <2>7. tryScheduleWork(found, again)
    BY <2>2
  <2> HIDE DEF found
  <2> QED  BY <1>1, <1>2, <2>6, <2>7, Ordinary
<1> QED  BY <1>3, <1>4, <1>5

LEMMA SwapDoneKeeps ==
  ASSUME IInv, SwapDone
  PROVE  IInv'
<1>1. Shift("SWAP_DONE") /\ TypeOK /\ "SWAP_DONE" # "PURIFY_DONE"
  BY DEF SwapDone, IInv
<1>2. PICK ms \in Found : tryScheduleWork(ms, <<>>)
  BY DEF SwapDone
<1>3. ms \in [Link -> Memory] /\ \A L \in Link : Busy(ms[L]) = Busy(mem[L])
  BY <1>1, FoundKeeps
<1>4. <<>> \in Seq(Event) /\ DOMAIN <<>> = {}
  BY EmptySeq
<1> QED  BY <1>1, <1>2, <1>3, <1>4, Ordinary

\* The end of a purification gives back the two slots it held.
LEMMA PurifyDoneKeeps ==
  ASSUME IInv, PurifyDone
  PROVE  IInv'
<1> DEFINE h == Head(events)
           K == h.link
<1>1. Shift("PURIFY_DONE") /\ TypeOK
  BY DEF PurifyDone, IInv
<1>2. /\ due \in Seq(Event) /\ later \in Seq(Event) /\ events # <<>>
      /\ due' = Tail(IF TimePasses THEN later ELSE due) /\ AllMeetTarget(events)
      /\ events \in Seq(Event) /\ h \in Event /\ h.type = "PURIFY_DONE" /\ Held(mem, events)
      /\ NobodyWaits
  BY <1>1, Arrives
<1>3. K \in Link /\ h.pair \subseteq Slot
  <2> HIDE DEF h
  <2> QED  BY <1>2 DEF Event
<1> DEFINE Joined(m, i, j) ==
             [f |-> Purified(Dephased(m[i].f), Dephased(m[j].f)),
              rounds |-> (IF m[i].rounds < m[j].rounds THEN m[j].rounds ELSE m[i].rounds) + 1,
              reserved |-> FALSE]
<1>4. PICK ms \in Found, i \in h.pair, j \in h.pair :
        /\ i < j
        /\ \E new \in {Without(ms[K], {i, j})}
                       \cup Placed(Without(ms[K], {i, j}), Joined(ms[K], i, j), 1, TRUE) :
             tryScheduleWork([ms EXCEPT ![K] = new], <<>>)
  BY DEF PurifyDone
<1>5. ms \in [Link -> Memory] /\ \A L \in Link : Busy(ms[L]) = Busy(mem[L])
  BY <1>1, FoundKeeps
<1> DEFINE consumed == Without(ms[K], {i, j})
           pair == Joined(ms[K], i, j)
<1>6. PICK new \in {consumed} \cup Placed(consumed, pair, 1, TRUE) :
        tryScheduleWork([ms EXCEPT ![K] = new], <<>>)
  BY <1>4
<1>7. /\ HeldOn(K, Busy(mem[K]), events) /\ IsOp(h, K)
      /\ Cardinality(h.pair) = 2 /\ h.pair \subseteq Busy(mem[K])
  <2>1. IsOp(h, K) /\ HeldOn(K, Busy(mem[K]), events)
    BY <1>2, <1>3 DEF IsOp, Held
  <2>2. h = events[1] /\ 1 \in DOMAIN events
    BY <1>2, TailParts
  <2> HIDE DEF h
  <2> QED  BY <2>1, <2>2 DEF HeldOn
<1>8. h.pair = {i, j}
  <2>1. i # j
    BY <1>3, <1>4 DEF Slot
  <2>2. {i, j} \in Two(h.pair)
    BY <2>1, PairOf
  <2>3. IsFiniteSet(h.pair)
    BY <1>3, SlotsFinite
  <2> HIDE DEF h
  <2>4. {i, j} \in SUBSET h.pair /\ Cardinality({i, j}) = 2
    BY <2>2 DEF Two
  <2> DEFINE ij == {i, j}
  <2> HIDE DEF ij
  <2>5. ij \in SUBSET h.pair /\ Cardinality(ij) = 2
    BY <2>4 DEF ij
  <2>6. h.pair = ij
    BY <1>7, <2>3, <2>5, FS_Subset
  <2> QED  BY <2>6 DEF ij
<1>9. ms[K] \in Memory
  BY <1>3, <1>5
<1>10. consumed \in Memory /\ Busy(consumed) = Busy(mem[K]) \ h.pair
  <2>1. Busy(ms[K]) = Busy(mem[K])
    BY <1>3, <1>5
  <2> HIDE DEF K
  <2> QED  BY <1>8, <1>9, <2>1, WithoutTwo
<1>11. pair \in Pair /\ ~pair.reserved
  <2>1. i \in DOMAIN ms[K] /\ j \in DOMAIN ms[K]
    BY <1>3, <1>5, <1>7 DEF Busy
  <2>2. ms[K][i] \in Pair /\ ms[K][j] \in Pair
    BY <1>9, <2>1, MemoryShape
  <2> DEFINE p == ms[K][i]
             q == ms[K][j]
  <2> HIDE DEF p, q
  <2>3. p.f \in Nat /\ p.rounds \in Nat /\ q.f \in Nat /\ q.rounds \in Nat
    BY <2>2 DEF p, q, Pair
  <2>4. /\ Purified(Dephased(p.f), Dephased(q.f)) \in Nat
        /\ (IF p.rounds < q.rounds THEN q.rounds ELSE p.rounds) + 1 \in Nat
    BY <2>3 DEF Purified, Dephased
  <2> QED  BY <2>4 DEF Pair, p, q
<1> HIDE DEF consumed, pair
<1>12. new \in Memory /\ Busy(new) = Busy(mem[K]) \ h.pair
  <2>1. CASE new = consumed
    BY <2>1, <1>10
  <2>2. CASE new \in Placed(consumed, pair, 1, TRUE)
    <3> DEFINE yes == TRUE
    <3> HIDE DEF yes
    <3>0. new \in Placed(consumed, pair, 1, yes)
      BY <2>2 DEF yes
    <3>1. new \in Memory /\ Busy(new) = Busy(consumed)
      BY <3>0, <1>10, <1>11, PlacedKeeps
    <3> QED  BY <3>1, <1>10
  <2> QED  BY <1>6, <2>1, <2>2
<1> DEFINE found == [ms EXCEPT ![K] = new]
<1>13. /\ found \in [Link -> Memory]
       /\ \A L \in Link : Busy(found[L]) = IF L = K THEN Busy(mem[K]) \ h.pair ELSE Busy(mem[L])
  BY <1>3, <1>5, <1>12
<1>14. tryScheduleWork(found, <<>>)
  BY <1>6
<1> HIDE DEF found
<1>15. Held(found, Tail(events))
  <2>1. SUFFICES ASSUME NEW L \in Link PROVE HeldOn(L, Busy(found[L]), Tail(events))
    BY DEF Held
  <2>2. CASE L = K
    <3>1. HeldOn(K, Busy(mem[K]) \ h.pair, Tail(events))
      BY <1>2, <1>7, HeldTailOp
    <3> QED  BY <2>2, <3>1, <1>13
  <2>3. CASE L # K
    <3>1. HeldOn(L, Busy(mem[L]), events) /\ ~IsOp(Head(events), L)
      BY <1>2, <2>3 DEF Held, IsOp
    <3>2. HeldOn(L, Busy(mem[L]), Tail(events))
      BY <1>2, <3>1, HeldTail
    <3> QED  BY <2>3, <3>2, <1>13
  <2> QED  BY <2>2, <2>3
<1>16. <<>> \in Seq(Event) /\ DOMAIN <<>> = {}
  BY EmptySeq
<1> QED  BY <1>2, <1>13, <1>14, <1>15, <1>16, WorkScheduled

\* The loop is over: all pairs go.
LEMMA DrainKeeps ==
  ASSUME IInv, drain
  PROVE  IInv'
<1>1. /\ events = <<>> /\ mem' = [L \in Link |-> <<>>]
      /\ due' = due /\ later' = later /\ events' = events
      /\ readyForSwap' = readyForSwap
  BY DEF drain, events
<1>2. <<>> \in Memory /\ Busy(<<>>) = {}
  <2>1. DOMAIN <<>> = {} /\ <<>> \in [{} -> Pair]
    OBVIOUS
  <2> QED  BY <2>1, MemoryShape DEF Busy
<1>3. TypeOK'
  BY <1>1, <1>2 DEF IInv, TypeOK
<1>4. Held(mem', events')
  BY <1>1, <1>2 DEF Held, HeldOn
<1>5. AllMeetTarget(events')
  BY <1>1 DEF IInv
<1>6. NoWorkLeftBehind'
  <2>1. \A L \in Link : mem'[L] = <<>> /\ DOMAIN mem'[L] = {}
    BY <1>1
  <2>2. (\E L \in Link : \A i \in DOMAIN mem[L] : mem[L][i].f < LinkTarget)'
    BY <2>1 DEF Link
  <2>3. ASSUME NEW L \in Link
        PROVE  Cardinality({i \in DOMAIN mem'[L] : mem'[L][i].f < LinkTarget'}) < 2
    <3>1. {i \in DOMAIN mem'[L] : mem'[L][i].f < LinkTarget'} = {}
      BY <2>1
    <3> QED  BY <3>1, FS_EmptySet
  <2>4. NobodyWaits'
    BY <1>1 DEF IInv, NobodyWaits
  <2> QED  BY <2>2, <2>3, <2>4 DEF NoWorkLeftBehind, NobodyWaits
<1>7. NobodyWaits'
  BY <1>1 DEF IInv, NobodyWaits
<1> QED  BY <1>3, <1>4, <1>5, <1>6, <1>7 DEF IInv, Held, AllMeetTarget

LEMMA InitHolds == Init => IInv
<1> SUFFICES ASSUME Init PROVE IInv
  OBVIOUS
<1>1. /\ mem = [L \in Link |-> <<>>] /\ due = <<Attempt("AR"), Attempt("RB")>> /\ later = <<>>
  BY DEF Init
<1>2. <<>> \in Memory /\ Busy(<<>>) = {}
  <2>1. DOMAIN <<>> = {} /\ <<>> \in [{} -> Pair]
    OBVIOUS
  <2> QED  BY <2>1, MemoryShape DEF Busy
<1>3. /\ Attempt("AR") \in Event /\ Attempt("AR").type = "ATTEMPT"
      /\ Attempt("RB") \in Event /\ Attempt("RB").type = "ATTEMPT"
  BY DEF Attempt, Event, Link
<1>4. /\ due \in Seq(Event) /\ DOMAIN due = {1, 2} /\ \A k \in DOMAIN due : due[k].type = "ATTEMPT"
  <2> HIDE DEF Attempt
  <2> QED  BY <1>1, <1>3
<1>5. later \in Seq(Event)
  BY <1>1, EmptySeq
<1>6. events = due
  BY <1>1, <1>4, ConcatEmptySeq DEF events
<1>7. TypeOK
  BY <1>1, <1>2, <1>4, <1>5 DEF TypeOK
<1>8. Held(mem, events)
  <2>1. \A L \in Link, k \in DOMAIN events : ~IsOp(events[k], L)
    BY <1>4, <1>6 DEF IsOp
  <2> QED  BY <1>1, <1>2, <2>1 DEF Held, HeldOn
<1>9. AllMeetTarget(events)
  BY <1>4, <1>6 DEF AllMeetTarget, MeetsTarget
<1>10. events # <<>>
  <2>1. DOMAIN <<>> = {}
    OBVIOUS
  <2>2. 1 \in DOMAIN events
    BY <1>4, <1>6
  <2> QED  BY <2>1, <2>2
<1>11. NobodyWaits
  BY DEF Init, NobodyWaits
<1> QED  BY <1>7, <1>8, <1>9, <1>10, <1>11 DEF IInv, NoWorkLeftBehind

LEMMA StepKeeps == IInv /\ [Next]_vars => IInv'
<1> SUFFICES ASSUME IInv, [Next]_vars PROVE IInv'
  OBVIOUS
<1>1. CASE AttemptOver \/ AttemptDeferred \/ AttemptMade
  BY <1>1, AttemptKeeps
<1>2. CASE PurifyDone
  BY <1>2, PurifyDoneKeeps
<1>3. CASE SwapDone
  BY <1>3, SwapDoneKeeps
<1>4. CASE drain
  BY <1>4, DrainKeeps
<1>5. CASE UNCHANGED vars
  BY <1>5 DEF vars, IInv, TypeOK, Held, AllMeetTarget, NobodyWaits, NoWorkLeftBehind, events,
              LinkTarget
<1> QED  BY <1>1, <1>2, <1>3, <1>4, <1>5 DEF Next

LEMMA Invariant == Spec => []IInv
  BY InitHolds, StepKeeps, PTL DEF Spec

-----------------------------------------------------------------------------
(* 7. Theorems.                                                            *)

\* Whatever the memory and the levels, a purification in flight has two
\* reserved pairs of its own until it ends: no gc, eviction, loss, swap or
\* other purification takes them (:352, 651).
THEOREM OperationsExclusive == Spec => []OperationsHoldTheirPairs
<1>1. IInv => OperationsHoldTheirPairs
  BY DEF IInv, Held, HeldOn, Busy, IsOp, OperationsHoldTheirPairs, InFlight
<1> QED  BY <1>1, Invariant, PTL

\* If any level up to the end of the search survives the wait for the
\* result, every swap still meets the target when its result is known: the
\* two pairs left their memories together, at the link target or above, and
\* waited for nothing else (:544-564, 621-628, 749).
THEOREM SwapsInTime == Spec => []SwapsMeetTarget
<1>1. IInv => SwapsMeetTarget
  BY DEF IInv, AllMeetTarget, MeetsTarget, Attainable, SwapsMeetTarget
<1> QED  BY <1>1, Invariant, PTL

\* When the loop ends, the memories hold no two ready pairs to swap and no
\* two to purify, however the work was cut up among the events, and no pair
\* waits outside them for a partner (:621, 754).
THEOREM NothingLeft == Spec => []NoWorkLeftBehind
<1>1. IInv => NoWorkLeftBehind
  BY DEF IInv
<1> QED  BY <1>1, Invariant, PTL
=============================================================================
