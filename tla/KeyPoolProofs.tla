---------------------------- MODULE KeyPoolProofs ----------------------------
(***************************************************************************)
(* Proofs about the key pool, for any routes, workers, block size and      *)
(* transmissions.                                                          *)
(*                                                                         *)
(* NothingUsedTwice is inductive with the types: a transmission brings     *)
(* bits no holder has, and a block takes the first bits of its pool and    *)
(* all its pulses.  KeysFromOwnBlock needs what the rows of a block are    *)
(* while it waits (RowsAnswered), and that a block whose key is stored is  *)
(* done with (StoredDone).                                                 *)
(***************************************************************************)
EXTENDS KeyPool, FiniteSetTheorems, SequenceTheorems, TLAPS

Bit == (Nat \ {0}) \X (Nat \ {0})
Row == Nat \X Worker

Feed == [route : Route, size : Nat \ {0}]
Pool == [bits : Seq(Bit), pulses : SUBSET Nat]
Block == [route : Route, index : Nat, bits : Seq(Bit), pulses : SUBSET Nat,
          secure : BOOLEAN, hash : {"none", "done", "workers", "slices"},
          wait : SUBSET Worker, rows : SUBSET Row]
Key == [block : Nat, rows : SUBSET Row]

TypeOK ==
  /\ feeds \in Seq(Feed)
  /\ pools \in [Route -> Pool]
  /\ blocks \in Seq(Block)
  /\ poolUp \in BOOLEAN
  /\ queues \in [Worker -> Seq(Nat)]
  /\ store \in [Route -> Seq(Key)]

-----------------------------------------------------------------------------
(* Sequences.                                                              *)

\* One sequence after the other.
LEMMA ConcatParts ==
  ASSUME NEW T, NEW s \in Seq(T), NEW u \in Seq(T)
  PROVE  /\ s \o u \in Seq(T)
         /\ Range(s \o u) = Range(s) \cup Range(u)
         /\ IsInjective(s) /\ IsInjective(u) /\ Range(s) \cap Range(u) = {}
              => IsInjective(s \o u)
<1>1. /\ s \o u \in Seq(T) /\ DOMAIN (s \o u) = 1 .. Len(s) + Len(u)
      /\ DOMAIN s = 1 .. Len(s) /\ DOMAIN u = 1 .. Len(u)
      /\ Len(s) \in Nat /\ Len(u) \in Nat
  OBVIOUS
<1>2. \A i \in 1 .. Len(s) : i \in DOMAIN (s \o u) /\ (s \o u)[i] = s[i]
  BY <1>1
<1>3. \A i \in 1 .. Len(u) :
        Len(s) + i \in DOMAIN (s \o u) /\ (s \o u)[Len(s) + i] = u[i]
  BY <1>1
<1>4. \A i \in DOMAIN (s \o u) :
        \/ i \in 1 .. Len(s)
        \/ \E j \in 1 .. Len(u) : i = Len(s) + j
  <2>1. ASSUME NEW i \in DOMAIN (s \o u), i \notin 1 .. Len(s)
        PROVE  \E j \in 1 .. Len(u) : i = Len(s) + j
    <3>1. i - Len(s) \in 1 .. Len(u) /\ i = Len(s) + (i - Len(s))
      BY <2>1, <1>1
    <3> QED  BY <3>1
  <2> QED  BY <2>1
<1>5. Range(s \o u) = Range(s) \cup Range(u)
  <2>1. ASSUME NEW i \in DOMAIN (s \o u)
        PROVE  (s \o u)[i] \in Range(s) \cup Range(u)
    <3>1. CASE i \in 1 .. Len(s)
      BY <3>1, <1>1, <1>2 DEF Range
    <3>2. CASE \E j \in 1 .. Len(u) : i = Len(s) + j
      BY <3>2, <1>1, <1>3 DEF Range
    <3> QED  BY <3>1, <3>2, <1>4
  <2>2. Range(s) \cup Range(u) \subseteq Range(s \o u)
    BY <1>1, <1>2, <1>3, Zenon DEF Range
  <2> QED  BY <2>1, <2>2 DEF Range
<1>6. ASSUME IsInjective(s), IsInjective(u), Range(s) \cap Range(u) = {},
             NEW i \in DOMAIN (s \o u), NEW k \in DOMAIN (s \o u),
             (s \o u)[i] = (s \o u)[k]
      PROVE  i = k
  <2>1. \A x \in 1 .. Len(s), y \in 1 .. Len(u) : s[x] # u[y]
    BY <1>6, <1>1 DEF Range
  <2>2. CASE i \in 1 .. Len(s) /\ k \in 1 .. Len(s)
    BY <2>2, <1>6, <1>1, <1>2 DEF IsInjective
  <2>3. ASSUME i \in 1 .. Len(s), k \notin 1 .. Len(s) PROVE FALSE
    BY <2>1, <2>3, <1>6, <1>2, <1>3, <1>4
  <2>4. ASSUME k \in 1 .. Len(s), i \notin 1 .. Len(s) PROVE FALSE
    BY <2>1, <2>4, <1>6, <1>2, <1>3, <1>4
  <2>5. CASE i \notin 1 .. Len(s) /\ k \notin 1 .. Len(s)
    <3>1. PICK x \in 1 .. Len(u) : i = Len(s) + x
      BY <2>5, <1>4
    <3>2. PICK y \in 1 .. Len(u) : k = Len(s) + y
      BY <2>5, <1>4
    <3>3. u[x] = u[y]
      BY <3>1, <3>2, <1>3, <1>6
    <3>4. x = y
      BY <3>3, <1>6, <1>1 DEF IsInjective
    <3> QED  BY <3>1, <3>2, <3>4
  <2> QED  BY <2>2, <2>3, <2>4, <2>5
<1> QED  BY <1>1, <1>5, <1>6 DEF IsInjective

\* A sequence cut in two.
LEMMA CutParts ==
  ASSUME NEW T, NEW s \in Seq(T), NEW n \in Nat, n <= Len(s)
  PROVE  /\ SubSeq(s, 1, n) \in Seq(T) /\ SubSeq(s, n + 1, Len(s)) \in Seq(T)
         /\ Range(s) = Range(SubSeq(s, 1, n)) \cup Range(SubSeq(s, n + 1, Len(s)))
         /\ IsInjective(s) =>
              /\ IsInjective(SubSeq(s, 1, n))
              /\ IsInjective(SubSeq(s, n + 1, Len(s)))
              /\ Range(SubSeq(s, 1, n)) \cap Range(SubSeq(s, n + 1, Len(s))) = {}
<1> DEFINE p == SubSeq(s, 1, n)
           q == SubSeq(s, n + 1, Len(s))
<1>1. /\ p \in Seq(T) /\ DOMAIN p = 1 .. n
      /\ q \in Seq(T) /\ DOMAIN q = 1 .. Len(s) - n
      /\ DOMAIN s = 1 .. Len(s) /\ Len(s) \in Nat
  OBVIOUS
<1>2. \A i \in 1 .. n : i \in 1 .. Len(s) /\ p[i] = s[i]
  OBVIOUS
<1>3. \A i \in 1 .. Len(s) - n : n + i \in 1 .. Len(s) /\ q[i] = s[n + i]
  OBVIOUS
<1> HIDE DEF p, q
<1>4. \A i \in 1 .. Len(s) :
        i \in 1 .. n \/ \E j \in 1 .. Len(s) - n : i = n + j
  <2>1. ASSUME NEW i \in 1 .. Len(s), i \notin 1 .. n
        PROVE  \E j \in 1 .. Len(s) - n : i = n + j
    <3>1. i - n \in 1 .. Len(s) - n /\ i = n + (i - n)
      BY <2>1, <1>1
    <3> QED  BY <3>1
  <2> QED  BY <2>1
<1>5. Range(s) = Range(p) \cup Range(q)
  <2>1. ASSUME NEW i \in 1 .. Len(s) PROVE s[i] \in Range(p) \cup Range(q)
    <3>1. CASE i \in 1 .. n
      BY <3>1, <1>1, <1>2 DEF Range
    <3>2. CASE \E j \in 1 .. Len(s) - n : i = n + j
      BY <3>2, <1>1, <1>3 DEF Range
    <3> QED  BY <3>1, <3>2, <1>4
  <2>2. Range(p) \cup Range(q) \subseteq Range(s)
    BY <1>1, <1>2, <1>3, Zenon DEF Range
  <2> QED  BY <2>1, <2>2, <1>1 DEF Range
<1>6. ASSUME IsInjective(s)
      PROVE  IsInjective(p) /\ IsInjective(q) /\ Range(p) \cap Range(q) = {}
  <2>1. IsInjective(p)
    BY <1>6, <1>1, <1>2, Zenon DEF IsInjective
  <2>2. ASSUME NEW i \in 1 .. Len(s) - n, NEW k \in 1 .. Len(s) - n, q[i] = q[k]
        PROVE  i = k
    <3>1. n + i = n + k
      BY <2>2, <1>6, <1>1, <1>3, Zenon DEF IsInjective
    <3> QED  BY <3>1
  <2>3. ASSUME NEW i \in 1 .. n, NEW k \in 1 .. Len(s) - n, p[i] = q[k]
        PROVE  FALSE
    <3>1. i = n + k
      BY <2>3, <1>6, <1>1, <1>2, <1>3, Zenon DEF IsInjective
    <3> QED  BY <3>1
  <2> QED  BY <2>1, <2>2, <2>3, <1>1 DEF IsInjective, Range
<1> QED  BY <1>1, <1>5, <1>6 DEF p, q

-----------------------------------------------------------------------------
(* The invariant.                                                          *)

\* A block that waits for workers has the rows of those that answered.
RowsAnswered ==
  \A b \in Blocks : blocks[b].hash = "workers" =>
    blocks[b].rows = {b} \X (Worker \ blocks[b].wait)

\* The audit lets exactly the secure blocks through to the hash.
SecureHashed == \A b \in Blocks : blocks[b].secure <=> blocks[b].hash # "none"

IsDone(b) == b \in Blocks /\ blocks[b].hash = "done"

\* Every stored key is whole, of a block of its route that is done with, and
\* the only one of its block.
StoredDone ==
  \A r \in Route : \A i \in DOMAIN store[r] :
    /\ IsDone(store[r][i].block) /\ blocks[store[r][i].block].route = r
    /\ store[r][i].rows = AllRows(store[r][i].block)
    /\ \A j \in DOMAIN store[r] : store[r][i].block = store[r][j].block => i = j

KeyInv == RowsAnswered /\ SecureHashed /\ StoredDone

IInv == TypeOK /\ NothingUsedTwice /\ KeyInv

LEMMA BlockTypes ==
  ASSUME TypeOK
  PROVE  /\ Blocks = 1 .. Len(blocks) /\ Len(blocks) \in Nat
         /\ \A b \in Blocks : blocks[b] \in Block
BY DEF TypeOK, Blocks

LEMMA FieldTypes ==
  ASSUME NEW x \in Block
  PROVE  /\ x.route \in Route /\ x.index \in Nat /\ x.bits \in Seq(Bit)
         /\ x.pulses \in SUBSET Nat /\ x.secure \in BOOLEAN
         /\ x.hash \in {"none", "done", "workers", "slices"}
         /\ x.wait \in SUBSET Worker /\ x.rows \in SUBSET Row
BY DEF Block

\* Blocks that go on: the same ones, with the same holdings and verdict; one
\* that is done stays as it is.
GoOn ==
  /\ blocks' \in Seq(Block) /\ DOMAIN blocks' = Blocks
  /\ \A b \in Blocks :
       /\ blocks'[b].route = blocks[b].route
       /\ blocks'[b].bits = blocks[b].bits
       /\ blocks'[b].pulses = blocks[b].pulses
       /\ blocks'[b].secure = blocks[b].secure
       /\ blocks[b].hash = "done" => blocks'[b] = blocks[b]
       /\ blocks'[b].hash = "none" <=> blocks[b].hash = "none"

LEMMA SeqOfBlocks ==
  ASSUME TypeOK, NEW f \in [Blocks -> Block]
  PROVE  f \in Seq(Block) /\ DOMAIN f = Blocks
<1>1. Blocks = 1 .. Len(blocks) /\ Len(blocks) \in Nat
  BY BlockTypes
<1>2. f \in [1 .. Len(blocks) -> Block]
  BY <1>1
<1> HIDE DEF Block
<1> QED  BY <1>1, <1>2, SeqDef

\* Blocks that lose a task all wait for one.
LEMMA FallBackGoesOn ==
  ASSUME TypeOK, RowsAnswered,
         NEW lost \in SUBSET {b \in Blocks : blocks[b].hash = "workers"},
         FallBack(lost)
  PROVE  GoOn /\ RowsAnswered'
<1>1. ASSUME NEW b \in Blocks
      PROVE  /\ blocks'[b] \in Block
             /\ blocks'[b].route = blocks[b].route
             /\ blocks'[b].bits = blocks[b].bits
             /\ blocks'[b].pulses = blocks[b].pulses
             /\ blocks'[b].secure = blocks[b].secure
             /\ blocks[b].hash = "done" => blocks'[b] = blocks[b]
             /\ blocks'[b].hash = "none" <=> blocks[b].hash = "none"
             /\ blocks'[b].hash = "workers" => blocks'[b] = blocks[b]
  <2>1. blocks[b] \in Block
    BY BlockTypes
  <2>2. CASE b \in lost
    <3>1. blocks'[b] = [blocks[b] EXCEPT !.hash = "slices"]
      BY <2>2 DEF FallBack
    <3>2. blocks[b].hash = "workers"
      BY <2>2
    <3>4. /\ blocks'[b] \in Block /\ blocks'[b].hash = "slices"
          /\ blocks'[b].route = blocks[b].route
          /\ blocks'[b].bits = blocks[b].bits
          /\ blocks'[b].pulses = blocks[b].pulses
          /\ blocks'[b].secure = blocks[b].secure
      BY <2>1, <3>1 DEF Block
    <3> QED  BY <3>2, <3>4
  <2>3. CASE b \notin lost
    <3>1. blocks'[b] = blocks[b]
      BY <2>3 DEF FallBack
    <3> QED  BY <2>1, <3>1
  <2> QED  BY <2>2, <2>3
<1>2. blocks' \in [Blocks -> Block] /\ DOMAIN blocks' = Blocks
  BY <1>1 DEF FallBack
<1>3. GoOn
  BY <1>1, <1>2, SeqOfBlocks DEF GoOn
<1>4. RowsAnswered'
  BY <1>1, <1>2 DEF RowsAnswered, Blocks
<1> QED  BY <1>3, <1>4

\* An answer: the block it was made for, if that still waits for it.
LEMMA AnswerGoesOn ==
  ASSUME TypeOK, RowsAnswered, NEW w \in Worker, Answer(w)
  PROVE  /\ GoOn /\ RowsAnswered'
         /\ \/ UNCHANGED store
            \/ \E b \in Blocks :
                 /\ blocks[b].hash = "workers" /\ blocks'[b].hash = "done"
                 /\ store' = Registered(store, blocks[b].route, b, AllRows(b))
<1> DEFINE a == Head(queues[w])
           Rows(b) == blocks[b].rows \cup {<<a, w>>}
           heard == {b \in Blocks : Waits(b, w) /\ Hears(b, a)}
           finished == {b \in heard : Finishes(b, w)}
           new(b) == [blocks[b] EXCEPT !.wait = @ \ {w}, !.rows = Rows(b),
                        !.hash = IF b \in finished THEN "done" ELSE @]
<1>1. /\ blocks' = [b \in Blocks |-> IF b \notin heard THEN blocks[b] ELSE new(b)]
      /\ \/ UNCHANGED store
         \/ \E b \in finished :
              store' = Registered(store, blocks[b].route, b, Rows(b))
  BY DEF Answer
<1>2. ASSUME NEW b \in heard
      PROVE  /\ b \in Blocks /\ b = a /\ w \in blocks[b].wait
             /\ blocks[b].hash = "workers"
             /\ Rows(b) = {b} \X (Worker \ (blocks[b].wait \ {w}))
             /\ Rows(b) \in SUBSET Row
             /\ b \in finished <=> blocks[b].wait = {w}
  <2>1. /\ b \in Blocks /\ b = a /\ w \in blocks[b].wait
        /\ blocks[b].hash = "workers"
    BY DEF Waits, Hears
  <2>2. blocks[b].rows = {b} \X (Worker \ blocks[b].wait)
    BY <2>1 DEF RowsAnswered
  <2>3. Rows(b) = {b} \X (Worker \ (blocks[b].wait \ {w}))
    BY <2>1, <2>2
  <2>4. b \in Nat
    BY <2>1, BlockTypes
  <2> QED  BY <2>1, <2>3, <2>4 DEF Finishes, Row
<1> HIDE DEF Rows, heard, finished
<1>3. ASSUME NEW b \in Blocks
      PROVE  /\ blocks'[b] \in Block
             /\ blocks'[b].route = blocks[b].route
             /\ blocks'[b].bits = blocks[b].bits
             /\ blocks'[b].pulses = blocks[b].pulses
             /\ blocks'[b].secure = blocks[b].secure
             /\ blocks[b].hash = "done" => blocks'[b] = blocks[b]
             /\ blocks'[b].hash = "none" <=> blocks[b].hash = "none"
             /\ blocks'[b].hash = "workers" => blocks[b].hash = "workers"
             /\ blocks'[b].hash = "workers" =>
                  blocks'[b].rows = {b} \X (Worker \ blocks'[b].wait)
             /\ b \in finished /\ b \in heard => blocks'[b].hash = "done"
  <2>1. blocks[b] \in Block
    BY BlockTypes
  <2>2. CASE b \in heard
    <3> DEFINE h == IF b \in finished THEN "done" ELSE blocks[b].hash
               wt == blocks[b].wait \ {w}
    <3>1. blocks'[b] = [blocks[b] EXCEPT !.wait = wt, !.rows = Rows(b), !.hash = h]
      BY <1>1, <2>2
    <3>2. /\ wt \in SUBSET Worker /\ Rows(b) \in SUBSET Row
          /\ h \in {"done", "workers"} /\ blocks[b].hash = "workers"
          /\ b \in finished => h = "done"
      BY <1>2, <2>1, <2>2, FieldTypes
    <3>3. Rows(b) = {b} \X (Worker \ wt)
      BY <1>2, <2>2
    <3> HIDE DEF h, wt
    <3>4. /\ blocks'[b] \in Block /\ blocks'[b].hash = h
          /\ blocks'[b].route = blocks[b].route
          /\ blocks'[b].bits = blocks[b].bits
          /\ blocks'[b].pulses = blocks[b].pulses
          /\ blocks'[b].secure = blocks[b].secure
      <4>1. h \in {"done", "workers", "slices"}
        BY <3>2
      <4>2. \E x \in SUBSET Worker, y \in SUBSET Row :
              blocks'[b] = [blocks[b] EXCEPT !.wait = x, !.rows = y, !.hash = h]
        BY <3>1, <3>2
      <4> QED  BY <2>1, <4>1, <4>2 DEF Block
    <3>5. blocks'[b].wait = wt /\ blocks'[b].rows = Rows(b)
      BY <2>1, <3>1 DEF Block
    <3> QED  BY <3>2, <3>3, <3>4, <3>5
  <2>3. CASE b \notin heard
    <3>1. blocks'[b] = blocks[b]
      BY <1>1, <2>3
    <3> QED  BY <2>1, <2>3, <3>1 DEF RowsAnswered
  <2> QED  BY <2>2, <2>3
<1>4. blocks' \in [Blocks -> Block] /\ DOMAIN blocks' = Blocks
  BY <1>1, <1>3
<1>5. GoOn
  BY <1>3, <1>4, SeqOfBlocks DEF GoOn
<1>6. RowsAnswered'
  BY <1>3, <1>4 DEF RowsAnswered, Blocks
<1>7. ASSUME NEW b \in finished,
             store' = Registered(store, blocks[b].route, b, Rows(b))
      PROVE  /\ b \in Blocks /\ blocks[b].hash = "workers"
             /\ blocks'[b].hash = "done" /\ Rows(b) = AllRows(b)
  <2>1. b \in heard
    BY DEF finished
  <2>2. blocks[b].wait = {w}
    BY <1>2, <2>1
  <2>3. Worker \ (blocks[b].wait \ {w}) = Worker
    BY <2>2
  <2> QED  BY <1>2, <1>3, <2>1, <2>3 DEF AllRows
<1> QED  BY <1>1, <1>5, <1>6, <1>7

-----------------------------------------------------------------------------
(* The store.                                                              *)

\* It stays, or it gets the key of a block that was not done with before.
LEMMA StoreKeeps ==
  ASSUME TypeOK, StoredDone, blocks' \in Seq(Block), Blocks \subseteq Blocks',
         \A b \in Blocks : blocks[b].hash = "done" => blocks'[b] = blocks[b],
         \/ UNCHANGED store
         \/ \E b \in Blocks' :
              /\ ~IsDone(b) /\ blocks'[b].hash = "done"
              /\ store' = Registered(store, blocks'[b].route, b, AllRows(b))
  PROVE  store' \in [Route -> Seq(Key)] /\ StoredDone'
<1>1. ASSUME NEW b, IsDone(b)
      PROVE  /\ b \in Blocks' /\ blocks'[b].hash = "done"
             /\ blocks'[b].route = blocks[b].route
  BY <1>1 DEF IsDone
<1>2. store \in [Route -> Seq(Key)]
  BY DEF TypeOK
<1>3. CASE UNCHANGED store
  BY <1>1, <1>2, <1>3 DEF StoredDone, IsDone, AllRows
<1>4. ASSUME NEW b \in Blocks', ~IsDone(b), blocks'[b].hash = "done",
             store' = Registered(store, blocks'[b].route, b, AllRows(b))
      PROVE  store' \in [Route -> Seq(Key)] /\ StoredDone'
  <2> DEFINE q == blocks'[b].route
             e == [block |-> b, rows |-> AllRows(b)]
  <2>1. b \in Nat /\ blocks'[b] \in Block
    BY DEF Blocks
  <2>2. q \in Route
    BY <2>1, FieldTypes
  <2>3. e \in Key
    BY <2>1 DEF Key, AllRows, Row
  <2>4. blocks'[b].hash = "done" /\ e.block = b /\ e.rows = AllRows(b)
    BY <1>4 DEF IsDone
  <2>5. /\ store' \in [Route -> Seq(Key)]
        /\ store'[q] = Append(store[q], e)
        /\ \A r \in Route : r # q => store'[r] = store[r]
    BY <1>2, <1>4, <2>2, <2>3 DEF Registered
  <2> HIDE DEF q, e
  <2>6. ASSUME NEW r \in Route
        PROVE  \A i \in DOMAIN store'[r] :
                 /\ store'[r][i].block \in Blocks'
                 /\ blocks'[store'[r][i].block].hash = "done"
                 /\ blocks'[store'[r][i].block].route = r
                 /\ store'[r][i].rows = AllRows(store'[r][i].block)
                 /\ \A j \in DOMAIN store'[r] :
                      store'[r][i].block = store'[r][j].block => i = j
    <3>1. CASE r # q
      <4>1. store'[r] = store[r]
        BY <2>5, <3>1
      <4> QED  BY <4>1, <1>1 DEF StoredDone
    <3>2. CASE r = q
      <4> DEFINE n == Len(store[r])
      <4>1. /\ DOMAIN store'[r] = 1 .. n + 1 /\ DOMAIN store[r] = 1 .. n
            /\ n \in Nat
            /\ \A i \in 1 .. n : store'[r][i] = store[r][i]
            /\ store'[r][n + 1] = e
        BY <1>2, <2>3, <2>5, <3>2
      <4>2. \A i \in 1 .. n :
              /\ IsDone(store[r][i].block) /\ store[r][i].block # b
              /\ blocks[store[r][i].block].route = r
              /\ store[r][i].rows = AllRows(store[r][i].block)
              /\ \A j \in 1 .. n : store[r][i].block = store[r][j].block => i = j
        BY <1>4, <4>1 DEF StoredDone
      <4>3. \A i \in 1 .. n + 1 : i \in 1 .. n \/ i = n + 1
        BY <4>1
      <4>4. blocks'[b].route = r
        BY <3>2 DEF q
      <4> HIDE DEF n
      <4>5. ASSUME NEW i \in 1 .. n + 1
            PROVE  /\ store'[r][i].block \in Blocks'
                   /\ blocks'[store'[r][i].block].hash = "done"
                   /\ blocks'[store'[r][i].block].route = r
                   /\ store'[r][i].rows = AllRows(store'[r][i].block)
        <5>1. CASE i \in 1 .. n
          BY <5>1, <1>1, <4>1, <4>2
        <5>2. CASE i = n + 1
          BY <5>2, <2>4, <4>1, <4>4
        <5> QED  BY <4>3, <5>1, <5>2
      <4>6. ASSUME NEW i \in 1 .. n + 1, NEW j \in 1 .. n + 1,
                   store'[r][i].block = store'[r][j].block
            PROVE  i = j
        BY <4>6, <2>4, <4>1, <4>2, <4>3
      <4> QED  BY <4>1, <4>5, <4>6
    <3> QED  BY <3>1, <3>2
  <2> QED  BY <2>5, <2>6 DEF StoredDone, IsDone, AllRows
<1> QED  BY <1>2, <1>3, <1>4

-----------------------------------------------------------------------------
(* What the pool and the blocks hold.                                      *)

\* A share grows by what nobody had.
LEMMA ShareGrows ==
  ASSUME NEW W, NEW N, NEW f, NEW g, NEW k \in DOMAIN f,
         SharedOut(W, f), W \cap N = {},
         DOMAIN g = DOMAIN f, g[k] = f[k] \cup N,
         \A h \in DOMAIN f : h # k => g[h] = f[h]
  PROVE  SharedOut(W \cup N, g)
<1>1. \A h \in DOMAIN f : f[h] \subseteq W
  BY DEF SharedOut
<1>2. UNION {g[h] : h \in DOMAIN g} = W \cup N
  <2>1. \A x : (\E h \in DOMAIN g : x \in g[h]) <=>
               (x \in N \/ \E h \in DOMAIN f : x \in f[h])
    OBVIOUS
  <2>2. \A x : x \in W <=> \E h \in DOMAIN f : x \in f[h]
    BY DEF SharedOut
  <2> QED  BY <2>1, <2>2
<1>3. ASSUME NEW i \in DOMAIN g, NEW h \in DOMAIN g, i # h
      PROVE  g[i] \cap g[h] = {}
  <2>1. f[i] \cap f[h] = {} /\ f[i] \cap N = {} /\ f[h] \cap N = {}
    BY <1>1, <1>3 DEF SharedOut
  <2> QED  BY <2>1, <1>3
<1> QED  BY <1>2, <1>3 DEF SharedOut

\* A share is split between its holder and a new one.
LEMMA ShareSplits ==
  ASSUME NEW W, NEW f, NEW g, NEW k \in DOMAIN f, NEW b, b \notin DOMAIN f,
         SharedOut(W, f), DOMAIN g = DOMAIN f \cup {b},
         f[k] = g[b] \cup g[k], g[b] \cap g[k] = {},
         \A h \in DOMAIN f : h # k => g[h] = f[h]
  PROVE  SharedOut(W, g)
<1>1. UNION {g[h] : h \in DOMAIN g} = W
  <2>1. \A x : (\E h \in DOMAIN g : x \in g[h]) <=>
               (\E h \in DOMAIN f : x \in f[h])
    OBVIOUS
  <2>2. \A x : x \in W <=> \E h \in DOMAIN f : x \in f[h]
    BY DEF SharedOut
  <2> QED  BY <2>1, <2>2
<1>2. \A h \in DOMAIN f : h # k => f[h] \cap f[k] = {}
  BY DEF SharedOut
<1>3. ASSUME NEW i \in DOMAIN g, NEW h \in DOMAIN g, i # h
      PROVE  g[i] \cap g[h] = {}
  <2>1. CASE i \in DOMAIN f \ {k} /\ h \in DOMAIN f \ {k}
    BY <1>3, <2>1 DEF SharedOut
  <2>2. CASE i \in {b, k} \/ h \in {b, k}
    BY <1>2, <1>3, <2>2
  <2> QED  BY <2>1, <2>2
<1> QED  BY <1>1, <1>3 DEF SharedOut

\* A route's part of NothingUsedTwice.
Bits(r) == [h \in HoldersOf(r) |-> Range(BitsIn(r, h))]
Pulses(r) == [h \in HoldersOf(r) |-> PulsesIn(r, h)]
UsedOnce(r) ==
  /\ \A h \in HoldersOf(r) : IsInjective(BitsIn(r, h))
  /\ SharedOut(BitsOn(r), Bits(r))
  /\ SharedOut(SentOn(r), Pulses(r))

LEMMA ByRoute == NothingUsedTwice <=> \A r \in Route : UsedOnce(r)
BY DEF NothingUsedTwice, UsedOnce, Bits, Pulses

\* Nothing moves as long as the blocks only go on.
LEMMA HoldingsStay ==
  ASSUME NothingUsedTwice, GoOn, UNCHANGED <<feeds, pools>>
  PROVE  NothingUsedTwice'
<1>1. ASSUME NEW r \in Route PROVE UsedOnce(r)'
  <2>1. HoldersOf(r)' = HoldersOf(r)
    BY DEF GoOn, HoldersOf, BlocksOf, Blocks
  <2>2. ASSUME NEW h \in HoldersOf(r)
        PROVE  BitsIn(r, h)' = BitsIn(r, h) /\ PulsesIn(r, h)' = PulsesIn(r, h)
    BY DEF GoOn, HoldersOf, BlocksOf, Blocks, BitsIn, PulsesIn
  <2>3. Bits(r)' = Bits(r) /\ Pulses(r)' = Pulses(r)
    BY <2>1, <2>2 DEF Bits, Pulses
  <2>4. BitsOn(r)' = BitsOn(r) /\ SentOn(r)' = SentOn(r)
    BY DEF BitsOn, SentOn
  <2>5. UsedOnce(r)
    BY ByRoute
  <2> QED  BY <2>1, <2>2, <2>3, <2>4, <2>5 DEF UsedOnce
<1> QED  BY <1>1 DEF NothingUsedTwice, UsedOnce, Bits, Pulses

\* The transmissions of the routes after one more.
LEMMA SentGrows ==
  ASSUME TypeOK, NEW r \in Route, NEW size \in FeedSizes,
         feeds' = Append(feeds, [route |-> r, size |-> size]),
         NEW t, t = Len(feeds) + 1
  PROVE  /\ feeds' \in Seq(Feed) /\ t \in Nat \ {0}
         /\ t \notin SentOn(r) /\ SentOn(r)' = SentOn(r) \cup {t}
         /\ BitsOn(r)' = BitsOn(r) \cup {t} \X (1 .. size)
         /\ BitsOn(r) \cap {t} \X (1 .. size) = {}
         /\ \A q \in Route : q # r => SentOn(q)' = SentOn(q) /\ BitsOn(q)' = BitsOn(q)
<1>1. /\ feeds \in Seq(Feed) /\ [route |-> r, size |-> size] \in Feed
      /\ size \in Nat \ {0}
  BY KeyPoolAssumption DEF TypeOK, Feed
<1>2. /\ feeds' \in Seq(Feed) /\ t \in Nat \ {0}
      /\ DOMAIN feeds' = DOMAIN feeds \cup {t} /\ t \notin DOMAIN feeds
      /\ feeds'[t] = [route |-> r, size |-> size]
      /\ \A u \in DOMAIN feeds : feeds'[u] = feeds[u]
  BY <1>1
<1>3. SentOn(r)' = SentOn(r) \cup {t} /\ t \notin SentOn(r)
  BY <1>2 DEF SentOn
<1>4. ASSUME NEW q \in Route, q # r PROVE SentOn(q)' = SentOn(q)
  BY <1>2, <1>4 DEF SentOn
<1>5. \A q \in Route : \A u \in SentOn(q) : feeds'[u] = feeds[u]
  BY <1>2 DEF SentOn
<1>6. ASSUME NEW q \in Route, q # r PROVE BitsOn(q)' = BitsOn(q)
  BY <1>4, <1>5, <1>6 DEF BitsOn
<1>7. BitsOn(r)' = BitsOn(r) \cup {t} \X (1 .. size)
  <2> DEFINE Of(u) == {u} \X (1 .. feeds'[u].size)
  <2>1. BitsOn(r)' = UNION {Of(u) : u \in SentOn(r) \cup {t}}
    BY <1>3 DEF BitsOn
  <2>2. BitsOn(r) = UNION {Of(u) : u \in SentOn(r)}
    BY <1>5 DEF BitsOn
  <2>3. Of(t) = {t} \X (1 .. size)
    BY <1>2
  <2> HIDE DEF Of
  <2>4. \A x : (\E u \in SentOn(r) \cup {t} : x \in Of(u)) <=>
               ((\E u \in SentOn(r) : x \in Of(u)) \/ x \in Of(t))
    OBVIOUS
  <2>5. BitsOn(r)' = BitsOn(r) \cup Of(t)
    BY <2>1, <2>2, <2>4
  <2> QED  BY <2>3, <2>5
<1>8. BitsOn(r) \cap {t} \X (1 .. size) = {}
  BY <1>3 DEF BitsOn
<1> QED  BY <1>2, <1>3, <1>4, <1>6, <1>7, <1>8

-----------------------------------------------------------------------------
(* A feed.                                                                 *)

\* The bits of a transmission.
LEMMA NewBits ==
  ASSUME NEW t \in Nat \ {0}, NEW size \in Nat
  PROVE  /\ BitsBrought(t, size) \in Seq(Bit)
         /\ IsInjective(BitsBrought(t, size))
         /\ Range(BitsBrought(t, size)) = {t} \X (1 .. size)
<1> DEFINE add == BitsBrought(t, size)
<1>1. \A i \in 1 .. size : <<t, i>> \in Bit
  BY DEF Bit
<1>2. add \in Seq(Bit) /\ DOMAIN add = 1 .. size
  BY <1>1 DEF BitsBrought
<1>3. IsInjective(add)
  BY DEF IsInjective, BitsBrought
<1>4. Range(add) = {t} \X (1 .. size)
  BY DEF Range, BitsBrought
<1> QED  BY <1>2, <1>3, <1>4

\* The pool of r with the new bits, before a block is cut off.
LEMMA FedPool ==
  ASSUME TypeOK, NEW r \in Route, NEW size \in FeedSizes,
         NEW t, t = Len(feeds) + 1,
         NEW all, all = pools[r].bits \o BitsBrought(t, size)
  PROVE  /\ all \in Seq(Bit) /\ pools[r].pulses \cup {t} \in SUBSET Nat
         /\ Range(all) = Range(pools[r].bits) \cup {t} \X (1 .. size)
         /\ IsInjective(pools[r].bits) /\ Range(pools[r].bits) \cap {t} \X (1 .. size) = {}
              => IsInjective(all)
<1> DEFINE add == BitsBrought(t, size)
<1>1. t \in Nat \ {0} /\ size \in Nat
  BY KeyPoolAssumption DEF TypeOK
<1>2. pools[r].bits \in Seq(Bit) /\ pools[r].pulses \in SUBSET Nat
  BY DEF TypeOK, Pool
<1>3. add \in Seq(Bit) /\ IsInjective(add) /\ Range(add) = {t} \X (1 .. size)
  BY <1>1, NewBits
<1>4. all = pools[r].bits \o add
  OBVIOUS
<1> DEFINE old == pools[r].bits
<1> HIDE DEF add, old
<1>5. /\ old \o add \in Seq(Bit) /\ Range(old \o add) = Range(old) \cup Range(add)
      /\ IsInjective(old) /\ IsInjective(add) /\ Range(old) \cap Range(add) = {}
           => IsInjective(old \o add)
  <2>1. old \in Seq(Bit)
    BY <1>2 DEF old
  <2> QED  BY <2>1, <1>3, ConcatParts
<1> QED  BY <1>1, <1>2, <1>3, <1>4, <1>5 DEF old

\* The block that is made, by the verdict on it.
LEMMA NewBlockFacts ==
  ASSUME TypeOK, NEW r \in Route, NEW v \in {"insecure", "small", "large"},
         NEW bits \in Seq(Bit), NEW pulses \in SUBSET Nat
  PROVE  LET block == NewBlock(r, bits, pulses, v)
         IN  /\ block \in Block
             /\ block.route = r /\ block.bits = bits /\ block.pulses = pulses
             /\ block.secure <=> block.hash # "none"
             /\ block.hash = "workers" => block.wait = Worker /\ block.rows = {}
<1>1. Cardinality(BlocksOf(r)) + 1 \in Nat
  <2>1. IsFiniteSet(1 .. Len(blocks)) /\ BlocksOf(r) \subseteq 1 .. Len(blocks)
    BY BlockTypes, FS_Interval DEF BlocksOf
  <2>2. Cardinality(BlocksOf(r)) \in Nat
    BY <2>1, FS_Subset, FS_CardinalityType
  <2> QED  BY <2>2
<1>2. /\ HashOf(v) \in {"none", "done", "workers", "slices"}
      /\ v # "insecure" <=> HashOf(v) # "none"
  BY DEF HashOf
<1>3. NewBlock(r, bits, pulses, v) \in Block
  BY <1>1, <1>2 DEF Block, NewBlock
<1> QED  BY <1>2, <1>3 DEF NewBlock

\* The queues with a task of block b for every worker.
WithTask(b) == [w \in Worker |-> Append(queues[w], b)]

\* Either the pool of r goes on filling, or one block is cut off it, when it
\* holds the bits all with those of transmission t.
Fed(r, t, all) ==
  \/ /\ pools' = [pools EXCEPT ![r] =
           [bits |-> all, pulses |-> pools[r].pulses \cup {t}]]
     /\ UNCHANGED <<blocks, queues, store>>
  \/ \E block \in Block, b \in {Len(blocks) + 1} :
       /\ Threshold <= Len(all)
       /\ block.route = r /\ block.bits = SubSeq(all, 1, Threshold)
       /\ block.pulses = pools[r].pulses \cup {t}
       /\ block.secure <=> block.hash # "none"
       /\ block.hash = "workers" => block.wait = Worker /\ block.rows = {}
       /\ blocks' = Append(blocks, block)
       /\ pools' = [pools EXCEPT ![r] =
            [bits |-> SubSeq(all, Threshold + 1, Len(all)), pulses |-> {}]]
       /\ \/ queues' = queues
          \/ queues' = WithTask(b)
       /\ \/ UNCHANGED store
          \/ /\ block.hash = "done"
             /\ store' = Registered(store, r, b, AllRows(b))

LEMMA FeedEffect ==
  ASSUME TypeOK, NEW r \in Route, NEW size \in FeedSizes,
         NEW v \in {"insecure", "small", "large"}, feed(r, size, v),
         NEW t, t = Len(feeds) + 1,
         NEW all, all = pools[r].bits \o BitsBrought(t, size)
  PROVE  /\ feeds' = Append(feeds, [route |-> r, size |-> size])
         /\ poolUp' = poolUp
         /\ Fed(r, t, all)
<1>1. all \in Seq(Bit) /\ pools[r].pulses \cup {t} \in SUBSET Nat
  BY FedPool
<1>2. CASE ~Full(all)
  BY <1>2 DEF feed, Fed
<1>3. CASE Full(all)
  <2> DEFINE b == Len(blocks) + 1
             block == NewBlock(r, SubSeq(all, 1, Threshold),
                               pools[r].pulses \cup {t}, v)
  <2>1. Threshold <= Len(all) /\ Threshold \in Nat
    BY <1>1, <1>3, KeyPoolAssumption DEF Full
  <2>2. SubSeq(all, 1, Threshold) \in Seq(Bit)
    BY <1>1, <2>1, CutParts
  <2>3. /\ block \in Block
        /\ block.route = r /\ block.bits = SubSeq(all, 1, Threshold)
        /\ block.pulses = pools[r].pulses \cup {t}
        /\ block.secure <=> block.hash # "none"
        /\ block.hash = "workers" => block.wait = Worker /\ block.rows = {}
    <3> DEFINE bs == SubSeq(all, 1, Threshold)
               ps == pools[r].pulses \cup {t}
    <3>1. bs \in Seq(Bit) /\ ps \in SUBSET Nat /\ block = NewBlock(r, bs, ps, v)
      BY <1>1, <2>2
    <3> HIDE DEF bs, ps, block
    <3>2. LET x == NewBlock(r, bs, ps, v)
          IN  /\ x \in Block /\ x.route = r /\ x.bits = bs /\ x.pulses = ps
              /\ x.secure <=> x.hash # "none"
              /\ x.hash = "workers" => x.wait = Worker /\ x.rows = {}
      BY <3>1, NewBlockFacts
    <3> QED  BY <3>1, <3>2 DEF bs, ps
  <2>4. /\ feeds' = Append(feeds, [route |-> r, size |-> size])
        /\ poolUp' = poolUp
        /\ blocks' = Append(blocks, block)
        /\ pools' = [pools EXCEPT ![r] =
             [bits |-> SubSeq(all, Threshold + 1, Len(all)), pulses |-> {}]]
        /\ queues' = IF block.hash = "workers"
                     THEN WithTask(b) ELSE queues
        /\ store' = IF block.hash = "done" THEN Registered(store, r, b, AllRows(b))
                    ELSE store
    BY <1>3 DEF feed, PulsesLeft, WithTask
  <2>5. b \in {Len(blocks) + 1}
    OBVIOUS
  <2> HIDE DEF block, b
  <2> QED  BY <2>1, <2>3, <2>4, <2>5 DEF Fed
<1> QED  BY <1>2, <1>3

\* What a feed on r does to the holdings: N are its new bits, all the bits in
\* the pool of r before a block b is cut off, and t the transmission.
LEMMA FeedOnce ==
  ASSUME TypeOK, NothingUsedTwice, NEW r \in Route, NEW size \in FeedSizes,
         NEW v \in {"insecure", "small", "large"}, feed(r, size, v)
  PROVE  NothingUsedTwice'
<1> DEFINE t == Len(feeds) + 1
           all == pools[r].bits \o BitsBrought(t, size)
           N == {t} \X (1 .. size)
<1>1. /\ all \in Seq(Bit) /\ Range(all) = Range(pools[r].bits) \cup N
      /\ IsInjective(pools[r].bits) /\ Range(pools[r].bits) \cap N = {}
           => IsInjective(all)
  BY FedPool
<1>2. /\ t \notin SentOn(r) /\ SentOn(r)' = SentOn(r) \cup {t}
      /\ BitsOn(r)' = BitsOn(r) \cup N
      /\ BitsOn(r) \cap N = {}
      /\ \A q \in Route : q # r => SentOn(q)' = SentOn(q) /\ BitsOn(q)' = BitsOn(q)
  <2>1. feeds' = Append(feeds, [route |-> r, size |-> size])
    BY DEF feed
  <2> QED  BY <2>1, SentGrows
<1>a. t = Len(feeds) + 1 /\ all = pools[r].bits \o BitsBrought(t, size)
  OBVIOUS
<1> HIDE DEF t, all, N
<1>3. Fed(r, t, all)
  BY <1>a, FeedEffect
<1>4. pools \in [Route -> Pool] /\ blocks \in Seq(Block)
  BY DEF TypeOK
<1>5. \A q \in Route : 0 \notin BlocksOf(q) /\ BlocksOf(q) \subseteq Blocks
  BY BlockTypes DEF BlocksOf
<1>6. /\ UsedOnce(r) /\ 0 \in HoldersOf(r)
      /\ IsInjective(pools[r].bits)
      /\ Bits(r)[0] = Range(pools[r].bits) /\ Pulses(r)[0] = pools[r].pulses
      /\ DOMAIN Bits(r) = HoldersOf(r) /\ DOMAIN Pulses(r) = HoldersOf(r)
  <2>1. UsedOnce(r) /\ 0 \in HoldersOf(r) /\ BitsIn(r, 0) = pools[r].bits
    BY ByRoute DEF HoldersOf, BitsIn
  <2> QED  BY <2>1 DEF UsedOnce, Bits, Pulses, PulsesIn
<1>7. IsInjective(all)
  <2>1. Range(pools[r].bits) \subseteq BitsOn(r)
    BY <1>6 DEF UsedOnce, SharedOut
  <2> QED  BY <1>1, <1>2, <1>6, <2>1
\* The bits and pulses once the transmission is in the pool.
<1> DEFINE grown == [h \in HoldersOf(r) |-> IF h = 0 THEN Range(all) ELSE Bits(r)[h]]
           counted == [h \in HoldersOf(r) |->
                         IF h = 0 THEN pools[r].pulses \cup {t} ELSE Pulses(r)[h]]
<1>8. SharedOut(BitsOn(r)', grown)
  <2>1. SharedOut(BitsOn(r), Bits(r))
    BY <1>6 DEF UsedOnce
  <2>2. /\ DOMAIN grown = DOMAIN Bits(r) /\ 0 \in DOMAIN Bits(r)
        /\ grown[0] = Bits(r)[0] \cup N
        /\ \A h \in DOMAIN Bits(r) : h # 0 => grown[h] = Bits(r)[h]
    BY <1>1, <1>6
  <2> HIDE DEF grown
  <2>3. SharedOut(BitsOn(r) \cup N, grown)
    BY <2>1, <2>2, <1>2, ShareGrows
  <2> QED  BY <2>3, <1>2
<1>9. SharedOut(SentOn(r)', counted)
  <2>1. SharedOut(SentOn(r), Pulses(r)) /\ SentOn(r) \cap {t} = {}
    BY <1>2, <1>6 DEF UsedOnce
  <2>2. /\ DOMAIN counted = DOMAIN Pulses(r) /\ 0 \in DOMAIN Pulses(r)
        /\ counted[0] = Pulses(r)[0] \cup {t}
        /\ \A h \in DOMAIN Pulses(r) : h # 0 => counted[h] = Pulses(r)[h]
    BY <1>6
  <2> HIDE DEF counted
  <2>3. SharedOut(SentOn(r) \cup {t}, counted)
    BY <2>1, <2>2, ShareGrows
  <2> QED  BY <2>3, <1>2
<1>10. CASE /\ pools' = [pools EXCEPT ![r] =
                 [bits |-> all, pulses |-> pools[r].pulses \cup {t}]]
            /\ UNCHANGED blocks
  <2>1. /\ pools'[r].bits = all /\ pools'[r].pulses = pools[r].pulses \cup {t}
        /\ \A q \in Route : q # r => pools'[q] = pools[q]
    BY <1>4, <1>10
  <2>2. \A q \in Route : HoldersOf(q)' = HoldersOf(q)
    BY <1>10 DEF HoldersOf, BlocksOf, Blocks
  <2>3. ASSUME NEW q \in Route, q # r PROVE UsedOnce(q)'
    <3>1. \A h \in HoldersOf(q) :
            BitsIn(q, h)' = BitsIn(q, h) /\ PulsesIn(q, h)' = PulsesIn(q, h)
      BY <1>10, <2>1, <2>3 DEF BitsIn, PulsesIn
    <3>2. Bits(q)' = Bits(q) /\ Pulses(q)' = Pulses(q)
      BY <2>2, <3>1 DEF Bits, Pulses
    <3>3. UsedOnce(q)
      BY ByRoute
    <3> QED  BY <1>2, <2>2, <2>3, <3>1, <3>2, <3>3 DEF UsedOnce
  <2>4. UsedOnce(r)'
    <3>1. \A h \in HoldersOf(r) :
            /\ BitsIn(r, h)' = IF h = 0 THEN all ELSE BitsIn(r, h)
            /\ PulsesIn(r, h)' =
                 IF h = 0 THEN pools[r].pulses \cup {t} ELSE PulsesIn(r, h)
      BY <1>10, <2>1 DEF BitsIn, PulsesIn
    <3>2. Bits(r)' = grown /\ Pulses(r)' = counted
      BY <2>2, <3>1 DEF Bits, Pulses
    <3>3. \A h \in HoldersOf(r) : IsInjective(BitsIn(r, h)')
      BY <1>6, <1>7, <3>1 DEF UsedOnce
    <3> HIDE DEF grown, counted
    <3> QED  BY <1>8, <1>9, <2>2, <3>2, <3>3 DEF UsedOnce
  <2>5. \A q \in Route : UsedOnce(q)'
    BY <2>3, <2>4
  <2> QED  BY <2>5 DEF NothingUsedTwice, UsedOnce, Bits, Pulses
<1>11. ASSUME NEW block \in Block, NEW b, b = Len(blocks) + 1,
              Threshold <= Len(all),
              block.route = r, block.bits = SubSeq(all, 1, Threshold),
              block.pulses = pools[r].pulses \cup {t},
              blocks' = Append(blocks, block),
              pools' = [pools EXCEPT ![r] =
                [bits |-> SubSeq(all, Threshold + 1, Len(all)), pulses |-> {}]]
       PROVE  NothingUsedTwice'
  <2> DEFINE rest == SubSeq(all, Threshold + 1, Len(all))
  <2>1. /\ pools'[r].bits = rest /\ pools'[r].pulses = {}
        /\ \A q \in Route : q # r => pools'[q] = pools[q]
    BY <1>4, <1>11
  <2>2. /\ Blocks' = Blocks \cup {b} /\ b \notin Blocks /\ b # 0
        /\ blocks'[b] = block
        /\ \A h \in Blocks : blocks'[h] = blocks[h]
    BY <1>4, <1>11 DEF Blocks
  <2>3. /\ IsInjective(block.bits) /\ IsInjective(rest)
        /\ Range(all) = Range(block.bits) \cup Range(rest)
        /\ Range(block.bits) \cap Range(rest) = {}
    <3>1. Threshold \in Nat
      BY KeyPoolAssumption
    <3> QED  BY <1>1, <1>7, <1>11, <3>1, CutParts
  <2> HIDE DEF rest
  <2>4. /\ HoldersOf(r)' = HoldersOf(r) \cup {b} /\ b \notin HoldersOf(r)
        /\ \A q \in Route : q # r => HoldersOf(q)' = HoldersOf(q)
    BY <1>5, <1>11, <2>2 DEF HoldersOf, BlocksOf
  <2>5. ASSUME NEW q \in Route, q # r PROVE UsedOnce(q)'
    <3>1. \A h \in HoldersOf(q) :
            BitsIn(q, h)' = BitsIn(q, h) /\ PulsesIn(q, h)' = PulsesIn(q, h)
      BY <1>5, <2>1, <2>2, <2>5 DEF BitsIn, PulsesIn, HoldersOf
    <3>2. Bits(q)' = Bits(q) /\ Pulses(q)' = Pulses(q)
      BY <2>4, <2>5, <3>1 DEF Bits, Pulses
    <3>3. UsedOnce(q)
      BY ByRoute
    <3> QED  BY <1>2, <2>4, <2>5, <3>1, <3>2, <3>3 DEF UsedOnce
  <2>6. UsedOnce(r)'
    <3>1. /\ BitsIn(r, b)' = block.bits /\ PulsesIn(r, b)' = block.pulses
          /\ BitsIn(r, 0)' = rest /\ PulsesIn(r, 0)' = {}
      BY <2>1, <2>2 DEF BitsIn, PulsesIn
    <3>2. \A h \in HoldersOf(r) : h # 0 =>
            BitsIn(r, h)' = BitsIn(r, h) /\ PulsesIn(r, h)' = PulsesIn(r, h)
      BY <1>5, <2>2 DEF BitsIn, PulsesIn, HoldersOf
    <3>3. \A h \in HoldersOf(r)' : IsInjective(BitsIn(r, h)')
      BY <1>6, <2>3, <2>4, <3>1, <3>2 DEF UsedOnce
    <3>4. SharedOut(BitsOn(r)', Bits(r)')
      <4>1. /\ DOMAIN Bits(r)' = DOMAIN grown \cup {b} /\ b \notin DOMAIN grown
            /\ 0 \in DOMAIN grown
            /\ Bits(r)'[b] = Range(block.bits) /\ Bits(r)'[0] = Range(rest)
            /\ grown[0] = Range(all)
            /\ \A h \in DOMAIN grown : h # 0 => Bits(r)'[h] = grown[h]
        BY <1>6, <2>4, <3>1, <3>2 DEF Bits
      <4> HIDE DEF grown
      <4> QED  BY <1>8, <2>3, <4>1, ShareSplits
    <3>5. SharedOut(SentOn(r)', Pulses(r)')
      <4>1. /\ DOMAIN Pulses(r)' = DOMAIN counted \cup {b} /\ b \notin DOMAIN counted
            /\ 0 \in DOMAIN counted
            /\ Pulses(r)'[b] = counted[0] /\ Pulses(r)'[0] = {}
            /\ \A h \in DOMAIN counted : h # 0 => Pulses(r)'[h] = counted[h]
        BY <1>6, <1>11, <2>4, <3>1, <3>2 DEF Pulses
      <4> HIDE DEF counted
      <4> QED  BY <1>9, <4>1, ShareSplits
    <3> QED  BY <3>3, <3>4, <3>5 DEF UsedOnce
  <2>7. \A q \in Route : UsedOnce(q)'
    BY <2>5, <2>6
  <2> QED  BY <2>7 DEF NothingUsedTwice, UsedOnce, Bits, Pulses
<1> QED  BY <1>3, <1>10, <1>11 DEF Fed

\* The keys and the types after a feed.
LEMMA FeedKeys ==
  ASSUME IInv, NEW r \in Route, NEW size \in FeedSizes,
         NEW v \in {"insecure", "small", "large"}, feed(r, size, v)
  PROVE  TypeOK' /\ KeyInv'
<1> DEFINE t == Len(feeds) + 1
           all == pools[r].bits \o BitsBrought(t, size)
<1>1. all \in Seq(Bit) /\ pools[r].pulses \cup {t} \in SUBSET Nat /\ TypeOK
  BY FedPool DEF IInv
<1>2. feeds' \in Seq(Feed) /\ poolUp' \in BOOLEAN
  <2>1. feeds' = Append(feeds, [route |-> r, size |-> size]) /\ poolUp' = poolUp
    BY DEF feed
  <2> QED  BY <1>1, <2>1, SentGrows DEF TypeOK
<1>a. t = Len(feeds) + 1 /\ all = pools[r].bits \o BitsBrought(t, size)
  OBVIOUS
<1> HIDE DEF t, all
<1>3. Fed(r, t, all)
  BY <1>1, <1>a, FeedEffect
<1>4. pools \in [Route -> Pool] /\ blocks \in Seq(Block) /\ queues \in [Worker -> Seq(Nat)]
  BY <1>1 DEF TypeOK
<1>5. CASE /\ pools' = [pools EXCEPT ![r] =
                [bits |-> all, pulses |-> pools[r].pulses \cup {t}]]
           /\ UNCHANGED <<blocks, queues, store>>
  <2>1. pools' \in [Route -> Pool]
    BY <1>1, <1>4, <1>5 DEF Pool
  <2>2. TypeOK'
    BY <1>1, <1>2, <1>5, <2>1 DEF TypeOK
  <2>3. KeyInv'
    BY <1>5 DEF IInv, KeyInv, RowsAnswered, SecureHashed, StoredDone, IsDone,
               AllRows, Blocks
  <2> QED  BY <2>2, <2>3
<1>6. ASSUME NEW block \in Block, NEW b, b = Len(blocks) + 1,
             Threshold <= Len(all),
             block.route = r,
             block.secure <=> block.hash # "none",
             block.hash = "workers" => block.wait = Worker /\ block.rows = {},
             blocks' = Append(blocks, block),
             pools' = [pools EXCEPT ![r] =
                [bits |-> SubSeq(all, Threshold + 1, Len(all)), pulses |-> {}]],
             \/ queues' = queues
             \/ queues' = WithTask(b),
             \/ UNCHANGED store
             \/ /\ block.hash = "done"
                /\ store' = Registered(store, r, b, AllRows(b))
      PROVE  TypeOK' /\ KeyInv'
  <2>1. pools' \in [Route -> Pool]
    <3>1. SubSeq(all, Threshold + 1, Len(all)) \in Seq(Bit)
      BY <1>1, <1>6, KeyPoolAssumption, CutParts
    <3> QED  BY <1>4, <1>6, <3>1 DEF Pool
  <2>2. /\ blocks' \in Seq(Block) /\ Blocks' = Blocks \cup {b}
        /\ b \in Nat /\ b \notin Blocks
        /\ blocks'[b] = block
        /\ \A h \in Blocks : blocks'[h] = blocks[h]
    BY <1>4, <1>6 DEF Blocks
  <2>3. queues' \in [Worker -> Seq(Nat)]
    <3>1. \A w \in Worker : Append(queues[w], b) \in Seq(Nat)
      BY <1>4, <2>2
    <3> QED  BY <1>4, <1>6, <3>1 DEF WithTask
  <2>4. store' \in [Route -> Seq(Key)] /\ StoredDone'
    <3>1. StoredDone
      BY DEF IInv, KeyInv
    <3>2. \/ UNCHANGED store
          \/ \E a \in Blocks' :
               /\ ~IsDone(a) /\ blocks'[a].hash = "done"
               /\ store' = Registered(store, blocks'[a].route, a, AllRows(a))
      BY <1>6, <2>2 DEF IsDone
    <3>3. /\ blocks' \in Seq(Block) /\ Blocks \subseteq Blocks'
          /\ \A a \in Blocks : blocks[a].hash = "done" => blocks'[a] = blocks[a]
      BY <2>2
    <3> QED  BY <1>1, <3>1, <3>2, <3>3, StoreKeeps
  <2>5. RowsAnswered'
    <3>1. RowsAnswered
      BY DEF IInv, KeyInv
    <3>2. block.hash = "workers" => block.rows = {b} \X (Worker \ block.wait)
      BY <1>6
    <3> QED  BY <2>2, <3>1, <3>2 DEF RowsAnswered
  <2>6. SecureHashed'
    <3>1. SecureHashed
      BY DEF IInv, KeyInv
    <3> QED  BY <1>6, <2>2, <3>1 DEF SecureHashed
  <2>7. TypeOK'
    BY <1>2, <2>1, <2>2, <2>3, <2>4 DEF TypeOK
  <2> QED  BY <2>4, <2>5, <2>6, <2>7 DEF KeyInv
<1> QED  BY <1>3, <1>5, <1>6 DEF Fed

-----------------------------------------------------------------------------
(* Every step.                                                             *)

LEMMA InitHolds == Init => IInv
<1> SUFFICES ASSUME Init PROVE IInv
  OBVIOUS
<1>1. /\ feeds = <<>> /\ blocks = <<>> /\ Blocks = {}
      /\ \A r \in Route : pools[r] = [bits |-> <<>>, pulses |-> {}]
      /\ \A r \in Route : store[r] = <<>>
  BY DEF Init, Blocks
<1>2. TypeOK
  <2>1. pools \in [Route -> Pool]
    BY DEF Init, Pool
  <2>2. queues \in [Worker -> Seq(Nat)] /\ store \in [Route -> Seq(Key)]
    BY DEF Init
  <2> QED  BY <1>1, <2>1, <2>2 DEF Init, TypeOK
<1>3. ASSUME NEW r \in Route PROVE UsedOnce(r)
  <2>1. HoldersOf(r) = {0} /\ SentOn(r) = {} /\ BitsOn(r) = {}
    BY <1>1 DEF HoldersOf, BlocksOf, SentOn, BitsOn
  <2>2. BitsIn(r, 0) = <<>> /\ PulsesIn(r, 0) = {}
    BY <1>1 DEF BitsIn, PulsesIn
  <2>3. IsInjective(<<>>) /\ Range(<<>>) = {}
    BY DEF IsInjective, Range
  <2> QED  BY <2>1, <2>2, <2>3 DEF UsedOnce, SharedOut, Bits, Pulses
<1>4. KeyInv
  BY <1>1 DEF KeyInv, RowsAnswered, SecureHashed, StoredDone
<1> QED  BY <1>2, <1>3, <1>4, ByRoute DEF IInv

\* A step of the workers or of the main thread: the blocks go on, and at most
\* one of them is done with and gives its key.
LEMMA WorkKeeps ==
  ASSUME IInv, GoOn, RowsAnswered', UNCHANGED <<feeds, pools>>,
         poolUp' \in BOOLEAN, queues' \in [Worker -> Seq(Nat)],
         \/ UNCHANGED store
         \/ \E b \in Blocks :
              /\ blocks[b].hash # "done" /\ blocks'[b].hash = "done"
              /\ store' = Registered(store, blocks[b].route, b, AllRows(b))
  PROVE  IInv'
<1>1. TypeOK /\ NothingUsedTwice /\ SecureHashed /\ StoredDone
  BY DEF IInv, KeyInv
<1>2. /\ blocks' \in Seq(Block) /\ Blocks' = Blocks
      /\ \A b \in Blocks : blocks'[b].route = blocks[b].route
      /\ \A b \in Blocks : blocks[b].hash = "done" => blocks'[b] = blocks[b]
  BY DEF GoOn, Blocks
<1>3. \/ UNCHANGED store
      \/ \E b \in Blocks' :
           /\ ~IsDone(b) /\ blocks'[b].hash = "done"
           /\ store' = Registered(store, blocks'[b].route, b, AllRows(b))
  BY <1>2 DEF IsDone
<1>4. store' \in [Route -> Seq(Key)] /\ StoredDone'
  BY <1>1, <1>2, <1>3, StoreKeeps
<1>5. NothingUsedTwice'
  BY <1>1, HoldingsStay
<1>6. SecureHashed'
  BY <1>1, <1>2 DEF SecureHashed, GoOn
<1>7. TypeOK'
  BY <1>1, <1>2, <1>4 DEF TypeOK
<1> QED  BY <1>4, <1>5, <1>6, <1>7 DEF IInv, KeyInv

LEMMA NextKeeps == IInv /\ [Next]_vars => IInv'
<1> SUFFICES ASSUME IInv, [Next]_vars PROVE IInv'
  OBVIOUS
<1>1. TypeOK /\ NothingUsedTwice /\ RowsAnswered
  BY DEF IInv, KeyInv
<1>2. poolUp \in BOOLEAN /\ queues \in [Worker -> Seq(Nat)]
  BY <1>1 DEF TypeOK
<1>3. ASSUME NEW r \in Route, NEW size \in FeedSizes,
             NEW v \in {"insecure", "small", "large"}, feed(r, size, v)
      PROVE  IInv'
  BY <1>1, <1>3, FeedOnce, FeedKeys DEF IInv
<1>4. ASSUME NEW w \in Worker, queues[w] # <<>>,
             queues' = [queues EXCEPT ![w] = Tail(@)]
      PROVE  queues' \in [Worker -> Seq(Nat)]
  <2>1. Tail(queues[w]) \in Seq(Nat)
    BY <1>2, <1>4
  <2> QED  BY <1>2, <1>4, <2>1
<1>5. ASSUME NEW w \in Worker, Answer(w) PROVE IInv'
  <2>1. /\ queues' \in [Worker -> Seq(Nat)]
        /\ UNCHANGED <<feeds, pools, poolUp>>
    BY <1>4, <1>5 DEF Answer
  <2>2. /\ GoOn /\ RowsAnswered'
        /\ \/ UNCHANGED store
           \/ \E b \in Blocks :
                /\ blocks[b].hash = "workers" /\ blocks'[b].hash = "done"
                /\ store' = Registered(store, blocks[b].route, b, AllRows(b))
    BY <1>1, <1>5, AnswerGoesOn
  <2> QED  BY <1>2, <2>1, <2>2, WorkKeeps
<1>6. ASSUME NEW w \in Worker, AnswerFails(w) PROVE IInv'
  <2> DEFINE lost == {b \in Blocks : Waits(b, w) /\ Hears(b, Head(queues[w]))}
  <2>1. /\ queues' \in [Worker -> Seq(Nat)]
        /\ poolUp' \in BOOLEAN /\ FallBack(lost)
        /\ UNCHANGED <<feeds, pools, store>>
    BY <1>2, <1>4, <1>6 DEF AnswerFails
  <2>2. lost \in SUBSET {b \in Blocks : blocks[b].hash = "workers"}
    BY DEF Waits
  <2> HIDE DEF lost
  <2>3. GoOn /\ RowsAnswered'
    BY <1>1, <2>1, <2>2, FallBackGoesOn
  <2> QED  BY <2>1, <2>3, WorkKeeps
<1>7. ASSUME NEW w \in Worker, WorkerDies(w) PROVE IInv'
  <2> DEFINE lost == {b \in Blocks : Waits(b, w)}
  <2>1. /\ queues' \in [Worker -> Seq(Nat)]
        /\ poolUp' \in BOOLEAN /\ FallBack(lost)
        /\ UNCHANGED <<feeds, pools, store>>
    <3>1. <<>> \in Seq(Nat)
      OBVIOUS
    <3>2. /\ queues' = [queues EXCEPT ![w] = <<>>] /\ poolUp' = FALSE
          /\ FallBack(lost) /\ UNCHANGED <<feeds, pools, store>>
      BY <1>7 DEF WorkerDies
    <3>3. queues' \in [Worker -> Seq(Nat)]
      BY <1>2, <3>1, <3>2
    <3> QED  BY <3>2, <3>3
  <2>2. lost \in SUBSET {b \in Blocks : blocks[b].hash = "workers"}
    BY DEF Waits
  <2> HIDE DEF lost
  <2>3. GoOn /\ RowsAnswered'
    BY <1>1, <2>1, <2>2, FallBackGoesOn
  <2> QED  BY <2>1, <2>3, WorkKeeps
<1>8. ASSUME NEW b \in Blocks, SlicesDone(b) PROVE IInv'
  <2>1. /\ blocks[b].hash = "slices"
        /\ blocks' = [blocks EXCEPT ![b].hash = "done"]
        /\ store' = Registered(store, blocks[b].route, b, AllRows(b))
        /\ UNCHANGED <<feeds, pools, poolUp, queues>>
    BY <1>8 DEF SlicesDone
  <2>2. /\ blocks[b] \in Block
        /\ blocks'[b] = [blocks[b] EXCEPT !.hash = "done"]
        /\ \A h \in Blocks : blocks[h] \in Block /\ h # b => blocks'[h] = blocks[h]
    BY <1>1, <2>1, BlockTypes DEF Blocks
  <2>3. /\ blocks'[b] \in Block /\ blocks'[b].hash = "done"
        /\ blocks'[b].route = blocks[b].route
        /\ blocks'[b].bits = blocks[b].bits
        /\ blocks'[b].pulses = blocks[b].pulses
        /\ blocks'[b].secure = blocks[b].secure
    BY <2>2 DEF Block
  <2>4. \A h \in Blocks : blocks[h] \in Block
    BY <1>1, BlockTypes
  <2>5. blocks' \in [Blocks -> Block] /\ DOMAIN blocks' = Blocks
    BY <2>1, <2>2, <2>3, <2>4 DEF Blocks
  <2>6. blocks' \in Seq(Block)
    BY <1>1, <2>5, SeqOfBlocks
  <2>7. GoOn
    BY <2>1, <2>2, <2>3, <2>4, <2>5, <2>6 DEF GoOn
  <2>8. RowsAnswered'
    BY <1>1, <2>2, <2>3, <2>4, <2>5 DEF RowsAnswered, Blocks
  <2> QED  BY <1>2, <2>1, <2>3, <2>7, <2>8, WorkKeeps
<1>9. CASE UNCHANGED vars
  <2>1. TypeOK'
    BY <1>1, <1>9 DEF TypeOK, vars
  <2>2. NothingUsedTwice'
    BY <1>1, <1>9 DEF vars, NothingUsedTwice, HoldersOf, BlocksOf, Blocks,
                      BitsIn, PulsesIn, BitsOn, SentOn
  <2>3. KeyInv'
    BY <1>9 DEF vars, IInv, KeyInv, RowsAnswered, SecureHashed, StoredDone,
                IsDone, AllRows, Blocks
  <2> QED  BY <2>1, <2>2, <2>3 DEF IInv
<1> QED  BY <1>3, <1>5, <1>6, <1>7, <1>8, <1>9 DEF Next

\* The invariant holds of every behaviour.
LEMMA Invariant == Spec => []IInv
BY InitHolds, NextKeeps, PTL DEF Spec

-----------------------------------------------------------------------------
(* The theorems.                                                           *)

\* Pools, blocks, queues and store keep their types, whatever the workers do.
THEOREM TypeCorrect == Spec => []TypeOK
<1>1. IInv => TypeOK
  BY DEF IInv
<1> QED  BY <1>1, Invariant, PTL

\* Feeding and cutting blocks off neither loses nor repeats a bit or a count
\* of pulses, for any size of blocks and transmissions.
THEOREM BitsUsedOnce == Spec => []NothingUsedTwice
<1>1. IInv => NothingUsedTwice
  BY DEF IInv
<1> QED  BY <1>1, Invariant, PTL

\* Every stored key is whole, of one secure block of its route, and the only
\* one of that block, for any number of workers and blocks under way.
THEOREM KeysWhole == Spec => []KeysFromOwnBlock
<1>1. ASSUME IInv PROVE KeysFromOwnBlock
  <2>1. SecureHashed /\ StoredDone
    BY <1>1 DEF IInv, KeyInv
  <2>2. ASSUME NEW r \in Route, NEW i \in DOMAIN store[r]
        PROVE  /\ store[r][i].block \in BlocksOf(r)
               /\ blocks[store[r][i].block].secure
               /\ store[r][i].rows = AllRows(store[r][i].block)
    BY <2>1 DEF StoredDone, SecureHashed, IsDone, BlocksOf
  <2>3. ASSUME NEW r \in Route
        PROVE  IsInjective([i \in DOMAIN store[r] |-> store[r][i].block])
    BY <2>1 DEF StoredDone, IsInjective
  <2> QED  BY <2>2, <2>3 DEF KeysFromOwnBlock, Range
<1> QED  BY <1>1, Invariant, PTL
=============================================================================
