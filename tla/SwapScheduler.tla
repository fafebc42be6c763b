----------------------------- MODULE SwapScheduler -----------------------------
(***************************************************************************)
(* The repeater's memories and the swap of two links:                      *)
(* QuantumMemoryScheduler and simulate of                                  *)
(* bb84/entanglement_swap_scheduler.js.  Links AR and RB attempt pairs,    *)
(* store them, purify two into one and, when both have a pair good enough, *)
(* swap one of each into a final pair.                                     *)
(*                                                                         *)
(* Every event is pushed one fibre delay ahead of the clock, so the queue  *)
(* is first in, first out; "due" holds what is left at the current time,   *)
(* "later" what comes one delay on.  A memory maps slots to pairs; the     *)
(* code keeps them in the order they came and takes the first of equals,   *)
(* here any of them may be taken (and for the naive policy, which goes by  *)
(* that order alone, any two).  A fidelity is a level: 0 is F = 0.5,       *)
(* purification adds levels (the odds of two phase-error pairs multiply),  *)
(* a delay in memory costs one, a swap ends one below its worse pair.      *)
(* Losses on the fibre, T1 losses and the outcome of a purification are    *)
(* free choices.  Werner states and the BBPSSW protocol, whose link target *)
(* counts no wait (:556), are left out.                                    *)
(***************************************************************************)
EXTENDS Integers, Sequences, FiniteSetsExt, Functions

CONSTANTS
  Slots,           \* memory slots of a link
  Attempts,        \* attemptsPerLink
  Multiplexing,    \* attempts made at once
  MaxRounds,       \* maxPurificationRoundsPerPair
  Floor, Urgent, Fresh, Target,  \* levels: useless below, near its deadline
                                 \* up to, of a new pair, of a final pair
  Best                           \* level at which the search for the link
                                 \* target ends (F = 0.999999)

ASSUME SwapAssumption ==
  /\ {Slots, Attempts, Multiplexing, MaxRounds} \subseteq Nat \ {0}
  /\ {Floor, Urgent, Fresh, Target, Best} \subseteq Nat \ {0}
  /\ Floor <= Urgent /\ Floor <= Fresh

VARIABLES
  policy,     \* "smart" or "naive"
  mem,        \* per link: the pairs in its slots
  pending,    \* attempts left
  due, later, \* events
  readyForSwap,  \* links with a pair taken for a swap: its level
  dropped     \* history: the last event let a photon that had arrived go

vars == <<policy, mem, pending, due, later, readyForSwap, dropped>>

Link == {"AR", "RB"}
Slot == 1..Slots
Two(S) == {p \in SUBSET S : Cardinality(p) = 2}

Dephased(f) == IF f = 0 THEN 0 ELSE f - 1
Purified(f, g) == f + g
Swapped(f, g) == (IF f <= g THEN f ELSE g) - 1

(* A pair of that level still meets the target after the wait for the     *)
(* swap.                                                                   *)
Survives(f) == Swapped(Dephased(f), Dephased(f)) >= Target

(* The least such level, or the end of the search when there is none.      *)
LinkTarget ==
  LET good == {f \in 1..Best : Survives(f)}
  IN IF good = {} THEN Best ELSE Min(good)

-----------------------------------------------------------------------------
(* QuantumMemoryScheduler: m is the memory of a link inside an event.      *)

IsFull(m) == Cardinality(DOMAIN m) >= Slots

(* Pairs that no purification has reserved.                                *)
(* Defect: reserved pairs are offered again.                               *)
FreeAny(m) == DOMAIN m
Free(m) == {i \in DOMAIN m : ~m[i].reserved}

Without(m, S) == Restrict(m, DOMAIN m \ S)
Reserved(m, S) ==
  [i \in DOMAIN m |-> IF i \in S THEN [m[i] EXCEPT !.reserved = TRUE] ELSE m[i]]

(* The clock moves: T1 takes the pairs "lost", the others age.             *)
Advanced(m, lost) ==
  [i \in DOMAIN m \ lost |->
     IF i \in Free(m) THEN [m[i] EXCEPT !.f = Dephased(@)] ELSE m[i]]

gc(m) == Without(m, {i \in Free(m) : m[i].f < Floor})

(* admit and insert of n such pairs, one by one: they take the slots that  *)
(* are free and then, when "evicts" says so, those of the worst pairs that *)
(* are worse; the rest are lost.                                           *)
Worse(m, pair, evicts) == {i \in Free(m) : evicts /\ m[i].f < pair.f}
Room(m, pair, evicts) ==
  Slots - Cardinality(DOMAIN m) + Cardinality(Worse(m, pair, evicts))

(* The first n of the slots S.                                             *)
Lowest(S, n) == {i \in S : Cardinality({j \in S : j < i}) < n}

Placed(m, pair, n, evicts) ==
  LET worse == Worse(m, pair, evicts)
      surplus == n - (Slots - Cardinality(DOMAIN m))
      Evictable(out) ==
        /\ \A i \in out, j \in worse \ out : m[i].f <= m[j].f
        /\ IF surplus <= 0 THEN out = {}
           ELSE IF surplus <= Cardinality(worse) THEN Cardinality(out) = surplus
           ELSE out = worse
      Filled(kept) ==
        [i \in DOMAIN kept \cup Lowest(Slot \ DOMAIN kept, n) |->
           IF i \in DOMAIN kept THEN kept[i] ELSE pair]
  IN {Filled(Without(m, out)) : out \in {o \in SUBSET worse : Evictable(o)}}

FreshPair == [f |-> Fresh, rounds |-> 0, reserved |-> FALSE]

(* Pairs good enough for a swap, and those of them takeReady may take.     *)
Ready(m) == {i \in Free(m) : m[i].f >= LinkTarget}
takeReady(m) == {i \in Ready(m) : \A j \in Ready(m) : m[j].f <= m[i].f}

(* Defect: two pairs are not enough.                                       *)
WorthwhileLate(free) == Cardinality(free) > 2
Worthwhile(free) == Cardinality(free) >= 2

(* The two pairs to purify.  The smart policy takes the best two of the    *)
(* highest level that has two, and looks at urgent pairs first.            *)
selectPurificationPair(m) ==
  LET free == Free(m) \ Ready(m)
      urgent == {i \in free : m[i].f <= Urgent}
      pool == IF Cardinality(urgent) >= 2 THEN urgent ELSE free
      Level(l) == {i \in pool : m[i].rounds = l}
      levels == {l \in 0..MaxRounds : Cardinality(Level(l)) >= 2}
      from == IF levels = {} THEN pool ELSE Level(Max(levels))
  IN IF ~Worthwhile(free) THEN {}
     ELSE IF policy = "naive" THEN Two(free)
     ELSE {p \in Two(from) : \A i \in p, j \in from \ p : m[j].f <= m[i].f}

-----------------------------------------------------------------------------
(* tryScheduleWork                                                         *)

Exhausted(m, p) == \E i \in p : m[i].rounds >= MaxRounds

(* Purifications of a link that one call may start.                        *)
Parallel == (Slots + 1) \div 2

(* The pairs that the loop reserves, one after the other: it goes on until *)
(* nothing is selected, a pair at its round limit is, or it did enough.    *)
Starts(m) ==
  LET Before(sel, k) == Reserved(m, UNION {sel[j] : j \in 1..(k - 1)})
  IN {sel \in UNION {[1..n -> Two(Free(m))] : n \in 0..Parallel} :
        /\ \A k \in DOMAIN sel :
             /\ sel[k] \in selectPurificationPair(Before(sel, k))
             /\ ~Exhausted(m, sel[k])
        /\ LET next == selectPurificationPair(Before(sel, Len(sel) + 1))
           IN Len(sel) = Parallel \/ next = {} \/ \E p \in next : Exhausted(m, p)}

(* The first event of a new time is at hand.  later' = the queue with what *)
(* the event pushes: "again", the starts of both links, the swap.          *)
TimePasses == due = <<>>
Queue == IF TimePasses THEN <<>> ELSE later
Started(L, sel) ==
  [k \in DOMAIN sel |-> [type |-> "PURIFY_DONE", link |-> L, pair |-> sel[k]]]

Purify(ms, again, swap) ==
  \E a \in Starts(ms["AR"]), b \in Starts(ms["RB"]) :
    /\ mem' = [L \in Link |-> Reserved(ms[L], UNION Range(IF L = "AR" THEN a ELSE b))]
    /\ later' = Queue \o again \o Started("AR", a) \o Started("RB", b) \o swap

(* The links that may take a ready pair out of memory.                     *)
(* Defect: a link does not wait until the other is ready too (:621-627).   *)
TakersAlone(ms) == {L \in Link : Ready(ms[L]) # {}}
Takers(ms) == IF \A L \in Link : Ready(ms[L]) # {} THEN Link ELSE {}

(* A pair taken before goes on ageing.                                     *)
Waiting(L) == IF TimePasses THEN Dephased(readyForSwap[L]) ELSE readyForSwap[L]

(* Ready pairs leave the memories; with one of each link a swap begins.    *)
tryScheduleWork(found, again) ==
  LET ms == [L \in Link |-> gc(found[L])]
      held == DOMAIN readyForSwap
      takers == Takers(ms) \ held
  IN \E best \in [takers -> Slot] :
       LET out == [L \in held \cup takers |->
                     IF L \in held THEN Waiting(L) ELSE ms[L][best[L]].f]
           rest == [L \in Link |->
                      IF L \in takers THEN Without(ms[L], {best[L]}) ELSE ms[L]]
           swaps == DOMAIN out = Link
       IN /\ \A L \in takers : best[L] \in takeReady(ms[L])
          /\ Purify(rest, again,
                    IF swaps THEN <<[type |-> "SWAP_DONE", pairs |-> out]>> ELSE <<>>)
          /\ readyForSwap' = IF swaps THEN <<>> ELSE out

-----------------------------------------------------------------------------
(* simulate                                                                *)

Attempt(L) == [type |-> "ATTEMPT", link |-> L]

Init ==
  /\ policy \in {"smart", "naive"}
  /\ mem = [L \in Link |-> <<>>] /\ pending = [L \in Link |-> Attempts]
  /\ due = <<Attempt("AR"), Attempt("RB")>> /\ later = <<>>
  /\ readyForSwap = <<>> /\ dropped = FALSE

events == due \o later

(* The memories an event may find.  The first event of a new time finds    *)
(* both collected: whichever it is, gc runs on both before anything of     *)
(* them is read.                                                           *)
Found ==
  IF TimePasses
  THEN {[L \in Link |-> gc(Advanced(mem[L], lost[L]))] :
        lost \in {lost \in [Link -> SUBSET Slot] :
                  \A L \in Link : lost[L] \subseteq Free(mem[L])}}
  ELSE {mem}

Shift(type) ==
  /\ events # <<>> /\ Head(events).type = type
  /\ due' = Tail(IF TimePasses THEN later ELSE due)
  /\ UNCHANGED policy

(* The memory is full of pairs at least as good as a new one: no photon is *)
(* produced and the attempt is put off.                                    *)
HoldsBack(m) ==
  policy = "smart" /\ IsFull(m) /\ \A i \in Free(m) : m[i].f >= Fresh

(* Defect: the last attempt is followed by one more.                       *)
AttemptOverAgain ==
  /\ Shift("ATTEMPT") /\ pending[Head(events).link] = 0
  /\ \E ms \in Found : tryScheduleWork(ms, <<Head(events)>>)
  /\ dropped' = FALSE /\ UNCHANGED pending

AttemptOver ==
  /\ Shift("ATTEMPT") /\ pending[Head(events).link] = 0
  /\ \E ms \in Found : tryScheduleWork(ms, <<>>)
  /\ dropped' = FALSE /\ UNCHANGED pending

AttemptDeferred ==
  /\ Shift("ATTEMPT") /\ pending[Head(events).link] > 0
  /\ \E ms \in Found :
       HoldsBack(ms[Head(events).link]) /\ tryScheduleWork(ms, <<Head(events)>>)
  /\ dropped' = FALSE /\ UNCHANGED pending

(* Some photons of the batch come through; what admit says of each is not  *)
(* looked at.                                                              *)
AttemptMade ==
  /\ Shift("ATTEMPT") /\ pending[Head(events).link] > 0
  /\ LET L == Head(events).link
         batch == IF Multiplexing < pending[L] THEN Multiplexing ELSE pending[L]
         evicts == policy = "smart"
     IN /\ \E ms \in Found, n \in 0..batch :
             /\ ~HoldsBack(ms[L])
             /\ \E m \in Placed(ms[L], FreshPair, n, evicts) :
                  tryScheduleWork([ms EXCEPT ![L] = m], <<Head(events)>>)
             /\ dropped' = (n > Room(ms[L], FreshPair, evicts))
        /\ pending' = [pending EXCEPT ![L] = @ - batch]

(* Both pairs go; if T1 took none and the measurements agree, a pair comes *)
(* back.                                                                   *)
PurifyDone ==
  /\ Shift("PURIFY_DONE")
  /\ LET L == Head(events).link
     IN \E ms \in Found, i, j \in Head(events).pair :
          LET m == ms[L]
              consumed == Without(m, {i, j})
              pair == [f |-> Purified(Dephased(m[i].f), Dephased(m[j].f)),
                       rounds |-> (IF m[i].rounds < m[j].rounds
                                   THEN m[j].rounds ELSE m[i].rounds) + 1,
                       reserved |-> FALSE]
          IN /\ i < j
             /\ \E new \in {consumed} \cup Placed(consumed, pair, 1, TRUE) :
                  tryScheduleWork([ms EXCEPT ![L] = new], <<>>)
  /\ dropped' = FALSE /\ UNCHANGED pending

(* The final pair is delivered, or discarded when it misses the target.    *)
SwapDone ==
  /\ Shift("SWAP_DONE")
  /\ \E ms \in Found : tryScheduleWork(ms, <<>>)
  /\ dropped' = FALSE /\ UNCHANGED pending

drain ==
  /\ events = <<>> /\ \E L \in Link : mem[L] # <<>>
  /\ mem' = [L \in Link |-> <<>>]
  /\ UNCHANGED <<policy, pending, due, later, readyForSwap, dropped>>

Next == \/ AttemptOver \/ AttemptDeferred \/ AttemptMade
        \/ PurifyDone \/ SwapDone \/ drain

(* simulate is one loop that runs to its end.                              *)
Spec == Init /\ [][Next]_vars /\ WF_vars(Next)

-----------------------------------------------------------------------------
(* Event k is the end of a purification on link L.                         *)
InFlight(k, L) == events[k].type = "PURIFY_DONE" /\ events[k].link = L

(* A purification in flight has two pairs of its own in memory until it    *)
(* ends: gc, eviction, swap and other purifications keep off them, and     *)
(* only they are reserved (:352, 651).                                     *)
OperationsHoldTheirPairs ==
  \A L \in Link :
    /\ \A i \in DOMAIN mem[L] : mem[L][i].reserved =>
         \E k \in DOMAIN events : InFlight(k, L) /\ i \in events[k].pair
    /\ \A k \in DOMAIN events : InFlight(k, L) =>
         /\ Cardinality(events[k].pair) = 2
         /\ \A i \in events[k].pair : i \in DOMAIN mem[L] /\ mem[L][i].reserved
         /\ \A j \in DOMAIN events : InFlight(j, L) /\ j # k =>
              events[k].pair \cap events[j].pair = {}

(* When some level survives the wait, the pairs of a swap still meet the   *)
(* target when the swap is known: a pair leaves its memory only with a     *)
(* partner, and the link target counts the wait for the result (:544-550,  *)
(* 621-627).  Without such a level swaps miss the target (:737-740, 749).  *)
SwapsMeetTarget ==
  (\E f \in 1..Best : Survives(f)) =>
    \A k \in DOMAIN events : events[k].type = "SWAP_DONE" =>
      Swapped(Dephased(events[k].pairs["AR"]), Dephased(events[k].pairs["RB"])) >= Target

(* "Akilli politika foton reddini SIFIRA indiriyor" (the smart policy      *)
(* brings the rejection of photons down to zero;                           *)
(* entanglement_swap_scheduler_test.js:76): no photon that arrived is let  *)
(* go.                                                                     *)
SmartKeepsPhotons == policy = "smart" => ~dropped

(* When the loop ends, no work is left in the memories: no two ready pairs *)
(* to swap, no two to purify, and no pair that left its memory and waits   *)
(* for a partner that never comes (:621, 754).                             *)
NoWorkLeftBehind ==
  events = <<>> =>
    /\ DOMAIN readyForSwap = {}
    /\ \E L \in Link : \A i \in DOMAIN mem[L] : mem[L][i].f < LinkTarget
    /\ \A L \in Link :
         LET low == {i \in DOMAIN mem[L] : mem[L][i].f < LinkTarget}
         IN (\A i \in low : mem[L][i].rounds < MaxRounds) => Cardinality(low) < 2

(* Putting attempts off never goes on for ever: the loop ends and leaves   *)
(* nothing in memory (:663, 671-685).                                      *)
Terminates == <>[](events = <<>> /\ \A L \in Link : mem[L] = <<>>)
=============================================================================
