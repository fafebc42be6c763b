# Photonic Justice OS: a verification project

TLA+ models of the parts of this repository whose correctness depends on the
order of events: the ETSI GS QKD 014 key management entity (KME) that hands
quantum keys to applications, its live certificate check with the responder
behind it, the access control of the equipment cabinets, what a link and a node
do when their shielding or their health fails, the quarantine of nodes, the pool
that turns bits into keys, and the scheduler of a quantum repeater. TLC checks
the models on small instances; TLAPS proves what matters most for every value of their
constants.

Paths are relative to the repository, `bb84/...` and `hal/...`. Line numbers are
those of the files as checked in.

## 1. The system

PhotonNet simulates and operates a small network of quantum key distribution
(QKD) nodes. A producer turns pulses into keys; a key server gives each key to
two applications, the *master* and the *slave* of a route; the nodes stand in
shielded cabinets whose leakage is measured, which may take a link, a node or the
whole server out of service; people open the cabinets for maintenance.

| Component | State | Operations | Talks to |
|---|---|---|---|
| **Key store** `KMEKeyStore`, `bb84/etsi014_kme_server.js` 195-355 | per route a map key_ID → (issuedToMaster, issuedToSlave), a queue array with a head index, two counters | `loadFromExport`, `seedDemo`, `takeForMaster` (enc_keys), `takeForSlave` (dec_keys) | called by handlers and inbox |
| **Request handlers** same file, 455-762 | one asynchronous handler per request; open TLS sessions | `authenticate`, `handleStatus`, `handleEncKeys`, `handleDecKeys`, `readBody` | store, OCSP, gate |
| **Shield gate** same file, 376-421, 795-817 | a file rewritten by the monitor (`multinode_shielding_testbed.js` 452-461) | checked per request and per new session; a 200 ms timer destroys sessions | handlers |
| **Keystore inbox** same file, 423-446 | a directory of export files | drained every 200 ms and at start | producer → store |
| **OCSP check** same file, 525-602 | cache per certificate | `checkOcsp`: cache or an `openssl` process of at most 4 s | responder |
| **OCSP responder** `bb84/pki_tools/run_ocsp_responder.sh` | files for the fingerprint and the process id; one `openssl` process | loop, watcher, clean-up | authority, OCSP check |
| **Cabinet lock** `SimulatedSmartLock`, `bb84/cabinet_lock_hal.js` | bolt, door, end of the unlock window, used nonces, event log, faults | `unlock`, `lock`, `status`, `eventsSince`, the physical door | coordinator, technician |
| **Maintenance coordinator** `bb84/maintenance_traffic_coordinator.js` | per node a mode, a window | `ingestEvent`, `scheduleMaintenance`, `hints`, `authorizeDoor`, `onLockEvent`, `completeMaintenance`, `clearIncident` | planner, lock, predictor |
| **Adaptive shielding** `bb84/adaptive_shielding_mitigation.js`, `mtls_failsafe_debounce.js` | debounce and latch states, the block being collected, the pool of clean bits | `ingest`, `grant`, `suspend`, `resume`, `setPartition` | sensor, planner, quarantine |
| **Quarantine** `bb84/mesh_isolation.js` | life cycle of suspicious nodes, optical bypasses | `update`, `operatorClear` | links, planner |
| **Node watchdog** `bb84/photonnet_core.js` 5110-5270 and its callers | services under way, which nodes are on | `triggerAnomaly`, `triggerPreventiveMaintenance`, the user's toggles and selections | application |
| **Link outages and bursts** same file, 4985-5110 and their callers | the outage, the generator, loads of links | `injectOutage`, `generateBurst`, cancellers, failure log | application, watchdog |
| **Key pool** same file, 1860-2050, 2650-2830 | pools and blocks per route, web workers, stored keys | `feed`, the answers of workers, `register` | transmissions, store |
| **Swap scheduler** `bb84/entanglement_swap_scheduler.js` | two memories, an event queue | `simulate` | simulation only |
| Network planner `bb84/multinode_shielding_network.js` | plan in force | `step`, `planUsesNode` | coordinator |
| Predictive maintenance `bb84/predictive_maintenance.js` | alert level, time below the level, order book | `ingest`, `consider` | coordinator |
| Rest of the core `bb84/photonnet_core.js` | calibration limiter, reputation, dual clock, and the physics | many, in sequence | user interface |
| Throttle and supply `bb84/qkd_backpressure.js`, `qkd_key_supply.js` | buffer levels, hysteresis, allocation tiers | run loops of simulations | core |
| Hardware layer `hal/*.py` | drivers, health tests, bridge | acquisition | core |
| Clients, emulators, PKI scripts, tests, drills, charts, UI | | | |

`PROJECT.json` lists every one of them with what is modelled and why the rest is
not.

### What is hard, and what correctness means

* **Key store.** A key must reach each side once. The hazards are long sequences
  of legal calls: re-imports between enc_keys and dec_keys, failed requests that
  have already changed something, the cut of the queue array after thousands of
  deliveries, restarts, exports that bring delivered keys back. Correct: the line of a
  route is exactly the keys no master has; no second master while a key is half-open,
  and one slave for each; keys leave in order; a key disappears only when it was delivered.
* **Handlers.** JavaScript runs one handler at a time, but a handler waits twice,
  for OCSP and for a body, and everything else happens meanwhile: the gate shuts,
  sessions are destroyed, the client leaves, other requests take keys. Correct: no
  key leaves after a shut gate was swept; every handler ends.
* **OCSP.** Several queries of one certificate may be under way, their results
  arrive in any order and are cached; the responder is a shell script whose loop,
  watcher and process step independently of each other and of the authority.
  A stop of the script may leave a process behind. Correct: revocation takes effect
  within a bound; an outage locks nobody out for longer than a bound.
* **Cabinet.** A grant vouches for a plan at the time it was issued; lock, clock,
  technician and poll all lag behind. Correct: a grant draws the bolt once and soon
  after the check; an open door on a node in use is noticed, unless the sensor is dead
  or a poll bounded in time passed its report over.
* **Adaptive shielding.** Two hysteresis machines with times that depend on the
  length of the episode, and blocks that readings, suspensions and partitions
  cut across. Correct: no key of a block that a bad reading touches is released;
  a lasting breach blocks; a healthy link recovers.
* **Quarantine.** Suspicion, release and relapse fall into an optical switch-over
  that takes time, and neighbours may be suspicious together: they share a fibre that
  each one's release and each one's bypass acts on. Correct: key that was shared with a
  suspect does not come back, save over a fibre that the release of one end put back under
  the other's quarantine; no fibre stays dark; a clean node returns.
* **Watchdog and crises.** Timers, panels, a failure log and the user act on the
  same nodes, links and generators. Correct: services of a node exclude each
  other, endpoints stay in the network, what is taken out comes back, what a panel
  shows is so.
* **Key pool.** Blocks share workers whose answers mix with failures and deaths.
  Correct: a key is hashed from its own block, and every secure block delivers.
* **Swap scheduler.** Pairs age while purifications and swaps hold them. Correct:
  operations keep their pairs, no pair waits alone for its partner, swaps meet the target
  if anything can, the run ends with no work left.

The hazards are listed one by one, at their lines, in `PROJECT.json`.


## 2. Modules

```
KeyDelivery              what the KME promises: the life of a key (abstract)
   ^ implemented by
KMEKeyStore              class KMEKeyStore --- MCKMEKeyStore
   ^ extended by
KMEServer                handlers, gate, inbox, restart --- MCKMEServer, KMEProofs

OcspResponder            responder script: loop, watcher, process
   ^ extended by
OcspCache                checkOcsp, its queries and its cache
   ^ extended by
Revocation               both, from signing to revocation --- MCRevocation, RevocationProofs

SmartLock + MaintenanceCoordinator
   ^ both extended by
CabinetAccess            grants, polls, operators --- MCCabinetAccess, CabinetAccessProofs

AdaptiveLink             one shielded link --- AdaptiveLinkProofs
MeshIsolation            quarantine and bypass --- MCMeshIsolation, MeshIsolationProofs
NodeWatchdog             services of nodes, the user --- CoreProofs
LinkCrisis               outages, bursts, panels --- CoreProofs
KeyPool                  pools, blocks, workers, register --- KeyPoolProofs
SwapScheduler            repeater memories and swaps --- SwapSchedulerProofs
```

A cfg without an MC module gives plain values only. The MC modules hold what a
cfg cannot write: records and functions as constants, symmetry sets, a view.

### KeyDelivery
A key of a route goes absent → waiting → issued → absent, or is burnt by a
failed request; waiting keys stand in a line and leave it from the front; a key that
arrives is one the store does not hold, never seen or delivered before (`completed`
counts deliveries); a crash forgets everything the store holds. No maps, flags or head
indexes.

### KMEKeyStore
The variables `routes`, `unissued`, `head`, `deliveredCount` and `destroyedCount`
are the fields of the class. `encGiven` and `decGiven` count, outside the process,
how often an answer held a key. One action per way a method can end that changes
something:

| Action | Code |
|---|---|
| `Import(exp)` | `loadFromExport` with merge: unknown keys are added and queued, known ones keep their flags |
| `EncServed` | `takeForMaster` that succeeds: size check on the first key in line, number check, `_dequeue` with its cut, flags, counter |
| `DecServed` | `takeForSlave` with every id accepted: keys deleted |
| `DecRefused` | `takeForSlave` that throws at the f-th id: the ids before it stay flagged |
| `Restart` | the process stops and starts; memory is lost |

Every method is synchronous, so each is one step. Refusals that change nothing are
no steps. The order of an import is that of a file, hence an arbitrary listing.
A key is its id within its route; the key material and base64 are left out.
`seedDemo` is an import of fresh keys. An export is any set of keys (`Exports`): the
producer in the core, `exportForKME`, lists every key it ever registered, delivered ones
included, and an old file may be read after a new one. A key that was delivered and
deleted therefore comes back as a new one, and the properties allow for it.

### KMEServer
Adds, for each connection, its open socket (`live`), the name in the client
certificate (`who`), the request (`req`) and the await its handler stands at
(`pc`). A handler runs in pieces: headers arrive (`Receive`) and OCSP is asked; the
answer (`OcspGoodServed`, `OcspGoodBody`, `OcspRefused`) leads through the gate
checks to the keys, to the wait for a body, or to an error; a body ends the wait in
`BodyServed`, `BodyBad` or `BodyTooLarge`. `readBody` on a request that has closed
already hears nothing: `pc = "hung"`. `Cut` is a client that leaves; `Sweep` the gate
timer; `GateWrite` the monitor that writes the gate file, or lets it go stale;
`Drop` and `Drain` the inbox, with broken files and failing unlinks; `ServerRestart`
the process. A connection carries one request at a time (no pipelining). The
configuration is the production one: mutual TLS, OCSP, gate and inbox all present.
`RouteName` gives the route of a pair of applications. It is any function: the code joins
two node names with a dash and strips a prefix, so that two pairs may have one route.

### OcspResponder, OcspCache, Revocation
`OcspResponder` is the shell script line by line: the loop writes the fingerprint
file (`WriteFp`), starts `openssl` (`StartProcess`), writes its process id
(`WritePid`) and waits (`ChildGone`); the process reads the database at some moment
of its own (`Load`) and ends with the first request (`Serve`); the watcher compares
(`Look`) and kills what the file names (`Kill`); the script is started and stopped
(`Boot`, `cleanup`). A stop between `StartProcess` and `WritePid` leaves the process behind
(`left`): it keeps the port, so that the processes of a script started anew end at once,
until a request comes. `Sign` and `Revoke` are the authority. What is kept of the
database is one certificate, which stands for the fingerprint too.

`OcspCache` is `checkOcsp`: `Ask` starts `openssl`, `Answered` is the moment the
responder decides, `Return` the callback that writes the cache, `Hit` a request that
the cache answers. They are apart because the network and a process lie between. A
query of age `MaxDelay` holds the clock, since `execFile` kills it then.

`Revocation` composes them: a query is answered by the process there is, and ends
it, or finds none. `Tick` moves the clock in seconds once the steps that the script
makes at once are made (`Settled`). `revokedAt`, `notGoodAt` and `accepted` are
history for the properties; the first two also count the time while a process left
behind is there.

### SmartLock, MaintenanceCoordinator, CabinetAccess
`SmartLock` has the fields of `SimulatedSmartLock`. The device has no timer: every
call first settles what time has done (`TimedOut`, `BoltAt`, `Remembered`), as
`tick()` does, and that is part of each action. Its clock is a parameter and differs
from the coordinator's by `skew`. A grant is its nonce plus the time the plan was
checked; forged or foreign documents are `UnlockDenied`. `pending` is the part of the
event log nobody has polled.

`MaintenanceCoordinator` is one node of the coordinator, its mode and window, with
`planUsesNode` for the plan in force. `CabinetAccess` wires the two as the callers
do: `AuthorizeDoor` issues a grant, grants may arrive late or repeatedly, `Poll` hands
events to `onLockEvent`, which makes the caller plan again, and operators complete a job
or clear an incident only with the door shut, as the comments ask of them. A poll gets
the events up to the last one it returns, but for any set of those before it: the callers
of the in-process adapter bound the time, and events whose time is later are passed over for
good, as the next poll asks from the last number on. `overtaken` remembers that a report
of the door now open went that way.

### AdaptiveLink
One link. `Ingest` is one whole call of `ingest`: the floor's debounce
(`FloorIngest`, five states), the egress latch (`EgressIngest`, whose release time and
margin depend on how long the episode was), the level (`LevelFor`), and the accounting
of the interval since the last reading (`AccountInterval`), which may close several
blocks at once. `Grant`, `Suspend`, `Resume`, `Quarantine` and `BackToMain` are the
calls other components make between two readings. Whether a positive key rate exists
is a free choice per reading, and so is the gap to the next one. `seen` records
what the raw readings were, independently of the code's own state.

### MeshIsolation
A tick is one `update`, one `Visit` per node in its order, and one `EndOfTick`
(`_advanceBypass`, then the links take their readings). `Observe` is `observe` with what
`_onTransition` makes of it: `EnterQuarantine` revokes pools, moves the links apart and
plans a bypass; `EnterProbation` takes both back. Evidence is any that lit fibres, the
probe and the cabinet lock can give: a node whose fibres are all dark is seen by its probe
only. A plan is any set of disjoint pairs of neighbours without a link, as rates and losses
decide in the code. A pool is the set of kinds of key in it. Any nodes may be suspicious
together, neighbours included. What then happens to the fibre between two of them is kept
as history: `freed` are the fibres that the release of one end put back into the main
partition while the quarantine of the other was not over, `lent` those that one bypass lit
while another has taken them.

### NodeWatchdog, LinkCrisis
`NodeWatchdog` has the two services of a node, cut at their awaits (`TriggerAnomaly`,
`Diagnosed`, `Healed`; `PredictiveTick`, `PreventiveDone`), with the callers' guards, the
marks of the predictive tick, and the user's toggles and endpoint selections.
The endpoints start as any two nodes, equal ones included, since a link to the page sets
each by itself.
`LinkCrisis` has the outage controller (one timer, ended early by `cancel`) and the
burst generator, a loop of animation frames that notices its cancellation only at the
next frame and whose `finally` clears the flag whoever owns it by then; several loops
may be alive. The panels and the failure log are the callers.

### KeyPool
`feed` is `KeyPoolBuffer.feed` with `_finalizeBlock`: the bits of a transmission, the cut of
a block, the audit's verdict (free), the way of hashing. A block in the workers waits for
one answer of each (`Answer`), may be failed (`AnswerFails`) or orphaned (`WorkerDies`), and
then goes on in slices (`SlicesDone`). A bit is its transmission and its place there, the
pulses counted are the set of transmissions they belong to; a row of the hash names the block
it was computed from and the worker whose share it is.

### SwapScheduler
`simulate` as the loop over its event queue, one event an action: `AttemptOver`,
`AttemptDeferred`, `AttemptMade`, `PurifyDone`, `SwapDone`, and `drain` at the end. Each
action ends in `tryScheduleWork`, as each event does. All delays are the fibre's, so the
queue is first in, first out. Fidelity is a level that ageing lowers and purification
raises; T1 losses, fibre losses and measurement outcomes are free. A memory maps slots to
pairs: where the code takes the first of equals, or the naive policy the first two, in the
order of arrival, the model takes any. What `tryScheduleWork` starts is a sequence of pairs
(`Starts`), one after the other from what the pairs before leave; the useless pairs that `gc`
removes at the start of a call are gone before the first is chosen. `readyForSwap` holds
the pairs that have left their memories for a swap. `LinkTarget` is the search of the code:
the least level that survives the wait for the swap, or `Best`, where the search ends, when
none does. The protocol is the default, DEJMPS; for BBPSSW the code asks for a target
that counts no wait (556).

## 3. Runs

Twelve runs, each under two and a half minutes on two cores; the largest, `Revocation`,
has 3.2 million states. The deadlock check is off only where the system ends: `KeyPool` (the
transmissions are used up) and `SwapScheduler`, `SwapMultiplexed` (the simulation is over).

| Run | Bounds | What it asks |
|---|---|---|
| `KMEKeyStore` | 1 route, 4 keys, requests of ≤ 2, cut after 1 used key, 1 restart, exports of any keys until 2 are destroyed | `TypeOK`; `QueueHoldsUnissued`, the line is exactly the keys without a master; `OneSlavePerMaster`, masters and slaves take turns and the map knows who is next; `AuditCountersAgree`, the two statistics equal what applications got; `HalfOpenKeysStay`; `DeliverySpec`, the store implements `KeyDelivery` |
| `KMEServer` | 2 connections, 2 applications, 1 route, 1 key, 1 inbox file, 1 restart | `NoSecondMaster`, whatever the inbox repeats; `NoKeysAfterSweep` |
| `KMEServerLiveness` (violation) | 1 connection, fairness | `BodyWaitEnds`: does every handler stop waiting for its body? |
| `Revocation` | 2 queries, lifetimes 3 and 1, delay 1, poll 1, clock to 7 | `StaleProcessIsSeen`; `AcceptanceEnds`; `LockoutEnds` |
| `CabinetAccess` | 1 grant, clock to 5, clocks ±1 apart, 2 pending events | `SingleUse`; `OpenedSoonAfterCheck`; `OpenDoorIsNoticed` |
| `AdaptiveLink` | readings 1, 2, 4, 5; floor 2, threshold 4, target 5, margin 1; debounce 1, recovery 2, blocks of 2, gaps 1 and 2, clock to 8 | `ReleasedBlocksUntouched`; `SustainedBreachBlocks`; `HealthyLinkRecovers`; `NoEarlyUnblock` |
| `MeshIsolation` | a chain a – x – y – b, both x and y suspicious, a probe at x, a lock with incidents at y; 2 bad samples, probation 1, switch-over 1, blocks of 2 ticks; fairness | `RevokedStaysOut`; `DarkFibresAreTaken`; `QuarantinedGivesNothing`; `ReleaseNeedsIndependent`; `CleanNodeReturns` |
| `NodeWatchdog` | 3 nodes, fairness | `OneServiceAtATime`; `EndpointsOnline`; `ServiceKeepsNodeOut`; `ServicedNodeReturns` |
| `LinkCrisis` | 2 links, 3 bursts alive at once, fairness | `PanelsShowTheTruth`; `NoLoadLeftBehind`; `LinksRecover` |
| `KeyPool` | 2 routes, 2 workers, blocks of 2 bits, 3 transmissions of 1 or 3 bits, fairness | `KeysFromOwnBlock`; `NothingUsedTwice`; `SecureBlocksDeliver` |
| `SwapScheduler` | 3 slots, 6 attempts a link, 1 at a time, 2 rounds of purification; levels: useless below 1, urgent up to 2, fresh 5, target 5, end of the search 9 | `OperationsHoldTheirPairs`; `SwapsMeetTarget`; `NoWorkLeftBehind`; `Terminates` |
| `SwapMultiplexed` (violation) | the same, 2 at a time | `SmartKeepsPhotons`: does the smart policy keep every photon that arrives? |

One run checks a type invariant, which covers the bookkeeping of the queue; the others
spend their time on properties that several actors have to break.

**Why the bounds suffice.** *Store:* routes share nothing but two counters, so one
route shows what one can do; four keys let the array be cut with keys behind the
cut and others imported later, which needs three; lists of two ids hold a good one
before a bad one and the same one twice. The theorems remove the bounds for the
invariants. *Server:* handlers meet only in the store, the gate and the inbox, and a
pair shows every such meeting; one key is enough for two connections to compete
for it; two applications have one route, and `ForeignPeers` leaves out requests for the
application's own name, whose route has the same keys. `MaxGone` bounds imports (each import
of a destroyed key starts a cycle; two cycles show a key coming back and leaving again),
`MaxRestarts` restarts. *Revocation:* two queries overlap in every order; the clock runs
past a revocation, the watcher, the last query and the whole lifetime of its entry;
theorems again remove the bounds. *Cabinet:* everything is about one grant and its
age; the clock outlasts validity, tolerance and unlock window, so that a grant is
forgotten and presented again. Two pending events are enough for a poll to return
several. `WindowView` identifies states that differ only in the start of a window that
has begun. *AdaptiveLink:* four readings fall below the floor, between floor and
threshold, between threshold and margin, and clear of all; a gap of two spans a whole
block; the clock allows a block, a recovery and a relapse in a row, and the theorems
have no bounds. *Mesh:* two neighbours
are enough for every meeting of two quarantines, as a fibre has two ends: in a chain the
bypasses of x and y both want the fibre between them, and each one's release puts it back;
the one update visits first and the one it visits last take both parts. Evidence comes from
receivers, neighbours, a probe and a lock, but no node has all of it, as in the code.
Switch-over and probation overlap in both orders; blocks are as long as
`RevokedNeverReturns` admits, one tick more than the probation. *Watchdog:*
a node that serves neither end needs a third node; services of different nodes share
only the endpoints. *Crises:* three loops are one running, one cancelled and one
that starts over both. *KeyPool:* three transmissions of up to three bits fill four
blocks, two of one route at once, which share both workers. *Swap:* three slots hold a
reserved pair of pairs and a third, a memory that fills up, and pairs at all rounds; a
new pair is below the link target, a purified one above.

**Fairness**, always weak and only of what the platform does by itself.
`KMEServerLiveness`, which is refuted: the OCSP answer, as `openssl` is killed after four
seconds (line 589) and its callback then runs, and the end of a body wait on an open socket,
since Node's HTTP server cuts a request that does not complete within its request timeout.
A handler whose listeners came too late has nothing to end it, and that is the
counterexample; nothing is assumed of clients. `MeshIsolation`: `update` and `step` are called again. `NodeWatchdog`,
`LinkCrisis`: timers fire and frames come, so each wait ends. `KeyPool`: a worker works
through its messages, with success or not, and the event loop comes back to each slice;
a worker may die, but one that falls silent without an error event would block its
block, as in the code. `SwapScheduler`: `simulate` is one loop that runs on.

**Mutants.** Each property of a passing run names a definition and a defective form
of it, defined next to it in the module ("Defect: ..."), some of them defects the
comments of the code report as fixed (import that resets a route, one lifetime for all
OCSP results, a destroyed socket nobody hears of). The run fails with it.

## 4. What the runs found

Two claims of the repository are refuted by runs.

* The comment on the listeners of `readBody` says that they rule out a promise that never
  settles (`etsi014_kme_server.js:494-496`). `KMEServerLiveness` finds one: `readBody` is called
  only after `authenticate` has awaited the OCSP query (676). A socket that closes during the
  query has fired its events before the listeners are attached, and the handler of the POST
  request waits for ever. It holds no session and takes no keys.
* The test of the scheduler says the smart policy brings photon rejection down to zero
  (`entanglement_swap_scheduler_test.js:76`). With two attempts at a time
  (`SwapMultiplexed`) the check before the batch looks once, the first photon fills the
  memory, and what `admit` says of the second is not looked at: photon and attempt are
  gone, although line 367 asks of the caller to put the attempt off without spending it.
  The test runs with 32 and 128 attempts at a time and passes because the loss is counted
  as deferred, which it does not add up. With one attempt at a time nothing is lost that
  way.

### Seen while modelling

Read off the code and its comments. The models do what the code does, so the properties are
stated with these exceptions, or leave them out:

* *Key server.* The comments say that a key given to both sides is never served again
  (329-332), since the producer prunes what was delivered (269-271). `exportForKME` lists
  every key it ever registered (core, 2954-2993), and a key that was delivered and deleted is
  imported as a new one (279). What holds of any export is that master and slave take turns
  (`OneSlavePerMaster`, `NoSecondMaster`, `KeyDelivery`). A late query's answer overwrites a
  newer "revoked" (597; 545), with the bound that `AcceptanceEnds` shows. A refused
  `takeForSlave` burns the ids before the bad one, and a later request is told they were
  delivered (343). The gate is not asked again after the body was awaited (676; header
  126-128). The size check looks at the first key in line only (315). An outage with parallel
  requests starts one `openssl` each (567). Two pairs of applications may have one route
  (241-246), whose keys they then share.
* *Responder script.* Stopped between starting `openssl` and writing its process id it
  leaves the process behind (`run_ocsp_responder.sh:44`, 84-86). That process answers one
  query, from the database it has read, however much later it comes: while it is there the
  bounds of `AcceptanceEnds` and `LockoutEnds` do not run.
* *Cabinet.* `completeMaintenance` closes an incident raised during the job
  (`maintenance_traffic_coordinator.js:99`; header 19-20). A poll bounded by the time, as
  the in-process adapter makes it (`cabinet_lock_hal_test.js:205-207`), passes over sensor
  events, which carry a later time than the entries after them (`cabinet_lock_hal.js:159`), and
  the next one asks from a later number on: the report of an open door is lost (`overtaken`).
* *Quarantine.* `operatorClear` leaves links and bypass as they are until the node's
  next transition (`mesh_isolation.js:191`). The release of a node puts all its links into the
  main partition, also the one to a neighbour still in quarantine (293). Key of that fibre
  then enters the main pool, revoked key of an open block included, against the header (30-32)
  and `MESH_ISOLATION_DESIGN.md:50`; that both ends of a link come into quarantine together
  is expected there (62, 68, 94). The run reaches this, and `freed` says that it is the only way
  out. The bypasses of two neighbours may both take the fibre between them, and the first to
  be taken back lights it (310); `lent` says that only this does. Virtual links of a bypass
  are left out when one of their ends comes under suspicion (277-280): their pools stay, and
  only the planner keeps such a node out of its routes
  (`multinode_shielding_network.js:264`). Two suspects that plan the same pair share its virtual
  link, and the first to be released switches it off for both.
* *Core.* A node with one critical and one safe metric loses its mark in the pass that
  set it and is served again after the service (10546; 9991). The pulses that brought
  leftover bits are counted with the first block (2723). A link to the page may set one node
  as source and destination (10113-10118).
* *Swap scheduler.* If no fidelity survives the wait, the search for the link target ends at
  its upper end (558-563) and swaps end below target (737-749): `SwapsMeetTarget` is about
  targets that can be met. The branch of `insert` for a full memory is not reached from
  `simulate`; one pair at its round limit ends a link's purifications for the event (649).

## 5. What is proved

Eight modules hold the theorems; each states a property that a run checks on a small
instance for every value of the constants.

| Module | Theorem | States | Assumes of the constants |
|---|---|---|---|
| `KMEProofs` | `TypeCorrect` | `[]TypeOK` | `StoreAssumption`: finite set of keys, positive sizes and bounds |
| | `QueueCorrect` | `[]QueueHoldsUnissued` | |
| | `OneEach` | `[]OneSlavePerMaster` | |
| | `HalfOpenKept` | `HalfOpenKeysStay` | |
| | `CountersTrue` | `[]AuditCountersAgree` | |
| | `StoreDelivers` | `DeliverySpec`, that is `Spec` of `KeyDelivery` | |
| | `MastersExclude` | `[]NoSecondMaster` | `ServerAssumption`: each pair of applications has a route |
| | `SweepStops` | `NoKeysAfterSweep` | |
| `RevocationProofs` | `StaleSeen` | `[]StaleProcessIsSeen` | `OcspAssumption`, `ResponderAssumption`: times are numbers, the watcher's interval positive |
| | `RevocationTakesEffect` | `[]AcceptanceEnds` | |
| | `LockoutIsBrief` | `[]LockoutEnds` | |
| `CabinetAccessProofs` | `GrantsUsedOnce` | `[]SingleUse` | `LockAssumption`, `AccessAssumption` |
| | `OpenDoorSeen` | `[]OpenDoorIsNoticed` | |
| | `OpenedInTime` | `OpenedSoonAfterCheck` | `MaxSkew <= Tolerance` |
| `CoreProofs` | `ServicesExclude` | `[]OneServiceAtATime` | none |
| | `EndpointsServe` | `[]EndpointsOnline` | |
| | `ServiceHoldsNode` | `ServiceKeepsNodeOut` | |
| | `PanelsTrue` | `[]PanelsShowTheTruth` | |
| | `LoadsOwned` | `[]NoLoadLeftBehind` | |
| `AdaptiveLinkProofs` | `BlocksUntouched` | `[]ReleasedBlocksUntouched` | `LinkAssumption`: integers, blocks and gaps not empty |
| | `UnblocksOnlyLate` | `NoEarlyUnblock` | |
| | `BreachBlocks` | `[]SustainedBreachBlocks` | `Debounce # 0` |
| | `LinkRecovers` | `[]HealthyLinkRecovers` | `FloorDb <= ThresholdDb`, `Recovery # 0`, `Debounce <= Recovery` |
| `MeshIsolationProofs` | `ReleaseIndependent` | `ReleaseNeedsIndependent` | `MeshAssumption`: fibres join two nodes, an order without repetition |
| | `QuarantineSilences` | `[]QuarantinedGivesNothing` | |
| | `DarkFibresOwned` | `[]DarkFibresAreTaken` | |
| | `RevokedNeverReturns` | `[]RevokedStaysOut` | `BlockTicks <= Probation + 1` |
| `KeyPoolProofs` | `BitsUsedOnce` | `[]NothingUsedTwice` | `KeyPoolAssumption`: positive sizes, finitely many workers |
| | `KeysWhole` | `[]KeysFromOwnBlock` | |
| `SwapSchedulerProofs` | `OperationsExclusive` | `[]OperationsHoldTheirPairs` | `SwapAssumption`: positive numbers, the floor not above urgent and fresh |
| | `SwapsInTime` | `[]SwapsMeetTarget` | |
| | `NothingLeft` | `[]NoWorkLeftBehind` | |

*Key store.* `TypeOK` is not inductive: that `Dequeue` moves the head within the array
needs the guard of `EncServed`, and that a served key is in the map needs the line to
hold known keys. The inductive invariant is `IInv == TypeOK /\ QueueHoldsUnissued`. Lemmas
about sequences say what an append of a listing (`Import`) and a move of the head,
with or without the cut (`Dequeue`), do to the stretch in line; each action then
preserves `IInv` because it changes flags and stretch by the same keys. `OneEach`
adds `BalanceInv`, which counts per key what was given: masters are one ahead of slaves while
the key is half-open, and equal otherwise, up to one more for each restart. A key that comes
back after its delivery starts level, so nothing is asked of the producer. `HalfOpenKept` is an action
property: only `DecServed` and `Restart` shrink a map. For `CountersTrue` an answer is a triple of
route, key and number (`Answers`), so that what was given is a set and its sum a cardinality:
it stays finite (`CountInv`), and an action that gives n different keys out adds n new triples
(`AnswersGrow`). That they are different is `QueueHoldsUnissued` for a master, the check of
repeated ids for a slave.

*Refinement.* The abstract line is the stretch behind the head, so an append and a move of
the head are an arrival and an issue whether or not the array is cut; the stage of a key is
read from its flags, and the count of its deliveries is `decGiven`. Every method is one step
of `KeyDelivery`: `Import` is `Arrive`, `EncServed` `Issue`, `DecServed` `Complete`,
`DecRefused` `Burn` of the ids before the one that throws, `Restart` `Forget`. Besides
`IInv` the steps need `SlaveLast`: a key is flagged for the slave only after it was issued,
or issuing it would burn it. A key that an import adds is absent in the abstract store too,
whether it was ever there before or not.

*Server.* The connections keep an invariant of their own (`ConnInv`: a handler that reads a
body has its socket; `SweptInv`: no session is open from a sweep to the next opening of the
gate), so after a sweep no handler can pass the checks and none stands past them. To the
store, every step of the server is a `StoreStep`: a method call for a pair of applications,
or an import of anything. `IInv` and `BalanceInv` survive those by the lemmas of the store.

*Revocation.* `StaleProcessIsSeen` needs to know where the loop stands (`ScriptInv`): the
fingerprint is written before the process starts, so whatever it reads is at least as
new. That is so of the processes of the loop; one that a stop has left behind (`left`) is in
nobody's files, and while it is there the deadlines are counted from now (`Timing`). The bound
on acceptance is carried by a chain of deadlines: a stale process
lives at most until the watcher's next look (`Timing`, `StaleEnds`), an answer it gave is
at most `MaxDelay` old when it returns, and an entry outlives its answer by its lifetime
(`CacheInv`). `LockoutIsBrief` has the same chain for entries that refuse, counted from the
last time the responder was absent or did not know the certificate.

*Cabinet.* Three invariants side by side. `UsedInv`: a grant that drew the bolt is remembered or
has expired by the lock's clock, which may be off but never turns back; tick forgets exactly
what the check of the expiry refuses. `WindowInv`: the bolt of a shut door was drawn by a
grant whose age then was within the limit, and the window ends soon after. Only here do the
clocks matter: `OpenedInTime` assumes that they differ by at most the tolerance. `NoticeInv`: a
node out of the network is in no plan, and while a door is open it stays out or an alarm
waits, because operators close jobs at a shut door only; otherwise the report was passed over
(`overtaken`).

*Watchdog.* `NodeInv` is `TypeOK`, `OneServiceAtATime` and `EndpointsOnline` together: the callers'
guards give the second, and selections offer online nodes only, none of them under
service, which keeps the third.

*Crises.* One controller runs at most one outage, so links down, quarantine marks and an
outage crisis are functions of it (`OutageInv`). A congestion crisis has exactly one
burst of its own (`CrisisInv`): the panel starts none while a crisis is shown, and a
cancelled crisis is shown until its loop has ended. `NoLoadLeftBehind` is inductive by
itself, as every loop takes its own load away.

*Adaptive link.* Three arguments meet in the step of a reading. `BlockInv`: an untainted
block began after the last interval with a bad end, and the level in force tells
whether the last reading was bad. `FloorInv` and `SuspicionInv`: since when the floor has been
under suspicion or on its way back, in terms of the raw readings. `LatchInv`: the latch
counts the good readings with the margin its episode asks for. The hypotheses of the
last two theorems are not checked by the code; its defaults (630 ms and 6300 ms, a floor
below the threshold) satisfy them. They are needed: with a zero debounce the first bad
reading is one of suspicion whatever its length, and with a debounce longer than the
recovery a short episode asks for more time than a long one.

*Quarantine.* For `ReleaseIndependent` the clean samples in the history exceed the clean time the
manager counts (`SeenInv`). The others need to know what a bypass holds while it comes and goes
(`PlansHold`: only suspects have one, its pairs join neighbours of the node that have no fibre
between them, so no virtual link is a fibre). `DarkFibresAreTaken` is then inductive, with `lent`
taking up the fibres that one reversal lights under another bypass. `ApartInv`: every fibre of a node
in quarantine is apart or freed. For `RevokedNeverReturns` the invariant (`RevokedInv`) follows the
revoked key through the blocks of the fibres not freed: it is in no pool of theirs (`RevokedPool`); a
lit one whose open block has some is apart (`RevokedApart`); and one of its ends is marked
(`RevokedAges`): let out by the operator, who leaves the fibres apart, or in a quarantine whose clean
time is less than the block's age, so that the block ends in the other partition before the release.
With two suspects the end that marks a block may change: when one is released its fibres are
either free of revoked key, or freed because the other is in quarantine (`MarkKept`, `RevokedClear`).
A block may be one tick longer than the probation and not two; TLC finds the counterexample
with two. The defaults of the code satisfy the bound by far (blocks of 1 or 10 s, a probation of 30 s).

*Key pool.* `NothingUsedTwice` is inductive with the types: a transmission brings bits that nobody
has (`ShareGrows`), and a block takes the first bits of its pool and all its pulses
(`ShareSplits`). For `KeysFromOwnBlock` the invariant says what a block in the workers has
(`RowsAnswered`: its own rows, of the workers that answered) and that a stored key belongs
to a block that is done with (`StoredDone`), which no answer, failure or death touches again.
That answers are told apart by their task is used in one place, `AnswerGoesOn`.

*Swap scheduler.* `IInv` has five parts: the types; `Held`, that per link the queue accounts for exactly
the reserved slots, each running purification for two that no other has; `AllMeetTarget`, that
every swap in the queue still meets the target when it is done, if any level can;
`NobodyWaits`, that between two events no pair stands outside its memory; and `NoWorkLeftBehind`. A
handler is followed through its parts: garbage collection, T1 losses, eviction, a stored photon and a
swap leave reserved slots alone, the end of a purification frees its own two, and the starts of
`tryScheduleWork` reserve disjoint pairs of free slots and push the events that free them
(`HeldStarted`). `LinkTargetIs` evaluates the search of the code: `Target + 2` if it finds a level, one
for the wait and one for the swap itself. Pairs that meet it go on to meet the target only if none waits
for its partner meanwhile: `BothOrNone` shows that each link takes one from its memory only
when the other does. `NoWorkLeftBehind` needs that an empty queue means nothing was started, hence
nothing could be selected (`SelectSome`, `StartsNone`), and that no reserved pair is left, which is `Held`.

Nothing is taken on trust; every leaf is checked by tlapm with SMT, Zenon and LS4.

*Only model-checked:* the liveness properties, since liveness under fairness and ENABLED are beyond the
prover: `CleanNodeReturns`, `ServicedNodeReturns`, `LinksRecover`,
`SecureBlocksDeliver` and `Terminates`. Every invariant and every action property that a passing
run checks is a theorem.

## 6. Not modelled, and why

* Key material, encodings, JSON, certificates, signatures: data the properties do
  not tell apart. A document that fails any check is a refusal.
* Server modes without mutual TLS, gate or OCSP; start-up option checks; the CRL
  reload, which matters only without a responder.
* The physics: rates, error models, Kalman filters, routing by floating-point
  weights, and with them predictive maintenance, the throttle, key supply and session
  admission. TLC has no floating point, and the code there is sequential: what a model
  could hold of it would be the formula without its numbers.
* `SecureMessageSession` (core 1441-1700): a session of one-time keys in one thread, with
  no step of another actor between its own.
* The multihop router, which runs the scheduler link by link.
* The protocol BBPSSW of the scheduler, for which the code asks for a link target that counts no
  wait (556).
* The HTTP and SCP transports of the lock. The bound that the in-process adapter puts on a poll is
  modelled by what it may pass over.
* Clients and emulators: any request at any time is the environment of `KMEServer`.
* User interface, charts, drills, reports, third-party bundle, hardware drivers. They
  are most of the repository's lines (the bundled React and the copies of the core in
  the user interface alone are two fifths), which is why the mapped share is small.

`PROJECT.json` repeats this per component.

## 7. Plan

Done: all modules above with their runs, and the proofs of section 5.

Left: every safety property of a passing run has its proof. What remains is to extend the
model by what section 6 leaves out.
