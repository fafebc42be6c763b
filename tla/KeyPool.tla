------------------------------- MODULE KeyPool --------------------------------
(***************************************************************************)
(* From sifted bits to keys ready for delivery: KeyPoolBuffer,             *)
(* ToeplitzAsyncEngine and KeyDeliveryStore.register of                    *)
(* bb84/photonnet_core.js.  A feed that fills a pool turns one block's     *)
(* worth of it into a block; the audit lets it through or not; the hash of *)
(* a small block is computed at once, that of a large one is spread over   *)
(* the web workers, which several blocks share, or done in slices on the   *)
(* main thread when there are none or one fails.                           *)
(*                                                                         *)
(* A bit is named by its transmission and its place there, and a count of  *)
(* pulses by the transmissions it sums.  The audit's verdict and the size  *)
(* of a block are free choices.  Rows of the hash are named by the block   *)
(* they were computed from and the worker whose share they are.  The LDPC  *)
(* comparison enters no decision and is left out.  A worker answers,       *)
(* reports a failure or dies with an error event (a silent one the code    *)
(* cannot notice).                                                         *)
(***************************************************************************)
EXTENDS Integers, Sequences, FiniteSets, Functions

CONSTANTS
  Route,
  Worker,          \* workers of the pool
  Threshold,       \* BLOCK_THRESHOLD_BITS
  FeedSizes,       \* bits one transmission brings
  MaxFeeds         \* bound on the transmissions

ASSUME KeyPoolAssumption ==
  /\ Threshold \in Nat \ {0} /\ FeedSizes \subseteq Nat \ {0} /\ MaxFeeds \in Nat
  /\ IsFiniteSet(Worker) /\ Worker # {}

VARIABLES
  feeds,      \* history: the transmissions, their route and size
  pools,      \* bitPairs of each route, and the transmissions its
              \* sentPulses counts
  blocks,     \* productionBlocks, with the state of their hash
  poolUp,     \* _pool is a pool of workers, not "unavailable"
  queues,     \* blocks whose task each worker still has to answer
  store       \* byRoute of KeyDeliveryStore

vars == <<feeds, pools, blocks, poolUp, queues, store>>

Blocks == DOMAIN blocks
BlocksOf(r) == {b \in Blocks : blocks[b].route = r}

Init ==
  /\ feeds = <<>> /\ blocks = <<>>
  /\ pools = [r \in Route |-> [bits |-> <<>>, pulses |-> {}]]
  /\ poolUp \in BOOLEAN        \* no Worker in this environment, or selfTest
  /\ queues = [w \in Worker |-> <<>>]
  /\ store = [r \in Route |-> <<>>]

-----------------------------------------------------------------------------
(* register: the key of block b, hashed from these rows.                   *)
Registered(st, r, b, rows) ==
  [st EXCEPT ![r] = Append(@, [block |-> b, rows |-> rows])]

Full(bits) == Len(bits) >= Threshold

(* Defect: the pulses stay with the pool as well.                          *)
PulsesLeftAll(pulses) == pulses
PulsesLeft(pulses) == {}

(* The hash of a block just made, as _finalizeBlock leaves it.             *)
HashOf(verdict) == CASE verdict = "insecure" -> "none"
                     [] verdict = "small" -> "done"
                     [] OTHER -> IF poolUp THEN "workers" ELSE "slices"

AllRows(b) == {b} \X Worker

(* The bits of transmission t.                                             *)
BitsBrought(t, size) == [i \in 1..size |-> <<t, i>>]

NewBlock(r, bits, pulses, verdict) ==
  LET hash == HashOf(verdict)
  IN [route |-> r, index |-> Cardinality(BlocksOf(r)) + 1,
      bits |-> bits, pulses |-> pulses, secure |-> verdict # "insecure",
      hash |-> hash, wait |-> IF hash = "workers" THEN Worker ELSE {}, rows |-> {}]

feed(r, size, verdict) ==
  LET t == Len(feeds) + 1
      bits == pools[r].bits \o BitsBrought(t, size)
      pulses == pools[r].pulses \cup {t}
      b == Len(blocks) + 1
      block == NewBlock(r, SubSeq(bits, 1, Threshold), pulses, verdict)
  IN /\ Len(feeds) < MaxFeeds
     /\ feeds' = Append(feeds, [route |-> r, size |-> size])
     /\ UNCHANGED poolUp
     /\ IF Full(bits)
        THEN /\ pools' = [pools EXCEPT ![r] =
                  [bits |-> SubSeq(bits, Threshold + 1, Len(bits)),
                   pulses |-> PulsesLeft(pulses)]]
             /\ blocks' = Append(blocks, block)
             /\ queues' = IF block.hash = "workers"
                          THEN [w \in Worker |-> Append(queues[w], b)]
                          ELSE queues
             /\ store' = IF block.hash = "done"
                         THEN Registered(store, r, b, AllRows(b)) ELSE store
        ELSE /\ pools' = [pools EXCEPT ![r] = [bits |-> bits, pulses |-> pulses]]
             /\ UNCHANGED <<blocks, queues, store>>

-----------------------------------------------------------------------------
(* The workers.                                                            *)

Waits(b, w) == blocks[b].hash = "workers" /\ w \in blocks[b].wait

(* A listener of block b hears an answer that was made for block a.        *)
Hears(b, a) == b = a

(* w's answer is the last that block b waits for.                          *)
(* Defect: the first answer ends the wait.                                 *)
FinishesFirst(b, w) == TRUE
Finishes(b, w) == blocks[b].wait = {w}

(* Every task of a block answered: the rows are put together and the key   *)
(* registered.  One answer finishes one block at most, its own.            *)
Answer(w) ==
  LET a == Head(queues[w])
      heard == {b \in Blocks : Waits(b, w) /\ Hears(b, a)}
      finished == {b \in heard : Finishes(b, w)}
      Rows(b) == blocks[b].rows \cup {<<a, w>>}
  IN /\ queues[w] # <<>>
     /\ queues' = [queues EXCEPT ![w] = Tail(@)]
     /\ blocks' = [b \in Blocks |->
          IF b \notin heard THEN blocks[b]
          ELSE [blocks[b] EXCEPT !.wait = @ \ {w}, !.rows = Rows(b),
                  !.hash = IF b \in finished THEN "done" ELSE @]]
     /\ \/ /\ finished = {}
           /\ UNCHANGED store
        \/ \E b \in finished :
             store' = Registered(store, blocks[b].route, b, Rows(b))
     /\ UNCHANGED <<feeds, pools, poolUp>>

(* These blocks lose a task: each goes on in slices on the main thread.    *)
(* Defect: the rejection goes to the caller.                               *)
FallBackNowhere(lost) ==
  blocks' = [b \in Blocks |->
    IF b \in lost THEN [blocks[b] EXCEPT !.hash = "error"] ELSE blocks[b]]
FallBack(lost) ==
  blocks' = [b \in Blocks |->
    IF b \in lost THEN [blocks[b] EXCEPT !.hash = "slices"] ELSE blocks[b]]

(* The answer is a failure.                                                *)
AnswerFails(w) ==
  /\ queues[w] # <<>>
  /\ LET lost == {b \in Blocks : Waits(b, w) /\ Hears(b, Head(queues[w]))}
     IN /\ FallBack(lost)
        /\ poolUp' = (poolUp /\ lost = {})
  /\ queues' = [queues EXCEPT ![w] = Tail(@)]
  /\ UNCHANGED <<feeds, pools, store>>

(* An error event: every listener of the worker hears it, and the worker   *)
(* answers nothing of what it had been given.                              *)
WorkerDies(w) ==
  /\ \E b \in Blocks : Waits(b, w)
  /\ FallBack({b \in Blocks : Waits(b, w)})
  /\ queues' = [queues EXCEPT ![w] = <<>>]
  /\ poolUp' = FALSE
  /\ UNCHANGED <<feeds, pools, store>>

(* The last slice.                                                         *)
SlicesDone(b) ==
  /\ blocks[b].hash = "slices"
  /\ blocks' = [blocks EXCEPT ![b].hash = "done"]
  /\ store' = Registered(store, blocks[b].route, b, AllRows(b))
  /\ UNCHANGED <<feeds, pools, poolUp, queues>>

Next ==
  \/ \E r \in Route, size \in FeedSizes, v \in {"insecure", "small", "large"} :
       feed(r, size, v)
  \/ \E w \in Worker : Answer(w) \/ AnswerFails(w) \/ WorkerDies(w)
  \/ \E b \in Blocks : SlicesDone(b)

(* Workers work through their messages and the event loop comes back to    *)
(* every slice.                                                            *)
Spec ==
  /\ Init /\ [][Next]_vars
  /\ \A w \in Worker : WF_vars(Answer(w) \/ AnswerFails(w))
  /\ \A b \in 1..MaxFeeds : WF_vars(b \in Blocks /\ SlicesDone(b))

-----------------------------------------------------------------------------
Entries == UNION {Range(store[r]) : r \in Route}

(* However the answers of blocks in the workers at the same time are mixed *)
(* with failures, a key stored for a route comes from one secure block of  *)
(* that route, from all rows of it and no others, and no block gives two   *)
(* keys (photonnet_core.js:1919, 1966, 2811).                              *)
KeysFromOwnBlock ==
  \A r \in Route :
    /\ \A e \in Range(store[r]) :
         /\ e.block \in BlocksOf(r) /\ blocks[e.block].secure
         /\ e.rows = AllRows(e.block)
    /\ IsInjective([i \in DOMAIN store[r] |-> store[r][i].block])

(* The transmissions of a route and their bits, and who holds what of      *)
(* them: the route's pool, numbered 0, and its blocks.                     *)
SentOn(r) == {t \in DOMAIN feeds : feeds[t].route = r}
BitsOn(r) == UNION {{t} \X (1..feeds[t].size) : t \in SentOn(r)}
HoldersOf(r) == BlocksOf(r) \cup {0}
BitsIn(r, h) == IF h = 0 THEN pools[r].bits ELSE blocks[h].bits
PulsesIn(r, h) == IF h = 0 THEN pools[r].pulses ELSE blocks[h].pulses

(* The sets f[h] share W out among them.                                   *)
SharedOut(W, f) ==
  /\ UNION {f[h] : h \in DOMAIN f} = W
  /\ \A g, h \in DOMAIN f : g # h => f[g] \cap f[h] = {}

(* No bit enters two blocks, or one twice, or gets lost between a pool and *)
(* its blocks, and the pulses of each transmission are counted once        *)
(* (photonnet_core.js:2722).                                               *)
NothingUsedTwice ==
  \A r \in Route :
    /\ \A h \in HoldersOf(r) : IsInjective(BitsIn(r, h))
    /\ SharedOut(BitsOn(r), [h \in HoldersOf(r) |-> Range(BitsIn(r, h))])
    /\ SharedOut(SentOn(r), [h \in HoldersOf(r) |-> PulsesIn(r, h)])

(* Whatever workers do, a secure block ends as a key in the store          *)
(* (photonnet_core.js:2016, 2019).                                         *)
SecureBlocksDeliver ==
  \A b \in 1..MaxFeeds :
    (b \in Blocks /\ blocks[b].secure) ~> \E e \in Entries : e.block = b
=============================================================================
