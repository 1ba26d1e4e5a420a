# TLA+ models and proofs for the LoRa universal simulator

This directory specifies the parts of the simulator whose correctness rests on
the order of events or on what is read off from it later: the C++ engine that
runs firmware nodes over a simulated radio channel (`src/orchestrator`,
`src/core`), the Lua MAC that a scenario puts on it
(`src/scenarios/dv_dual_sf.lua`), the web service that runs the engine for its
users (`src/webapp/server`), and the tools that report on the event log of a run
(`src/tools`). Every definition is translated from the source; `PROJECT.json`
gives the lines of each.

Contents: [The system](#the-system) · [Modules](#modules) · [Runs](#runs) ·
[What the code does not promise](#what-the-code-does-not-promise) ·
[Fairness](#fairness) · [Proofs](#proofs) · [Observations](#observations) ·
[What is not modelled](#what-is-not-modelled) · [Plan](#plan)

## The system

| Part | State | Operations | Talks to |
|---|---|---|---|
| `SimController` | virtual clock, in-flight list, collision verdicts, per-node TX slot and last TX window, command and drop counters, node lifecycle | `initialize`, `step` (lifecycle, startup, commands, deliver, timers, register, advance), `fireCommand` | calls every node back; asks CollisionModel, LbtModel, SimRadio, LinkModel |
| `CollisionModel` | none | `evaluateCollision` | called twice for each overlapping pair |
| `LbtModel` | CAD busy-until per node; an ask-time provider in energy mode | `isChannelBusy`, `notifyBusy` | reads the in-flight list through the provider |
| `SimRadio` | RX-active window, RX->TX turnaround, current SF/BW | `notifyRxStart`, `getEstAirtimeFor`, `setRadioParams` | one per node |
| `FirmwareNode`, `ScriptedNode` | pending transmissions, airtime log, tuning, blind window, timer maps | `simTx`, retune, `simAfter`/`simCancel`, `tickTimers`, callbacks | the firmware or a Lua script, which may call anything back |
| `TimerWheel` | heap of deadlines, list of cancelled handles | `scheduleAfter`, `cancel`, `popDue` | owned by a node |
| `EventLog` | `events.ndjson`, one line per event | every emit of the engine and of the scripts | read by the server while `lus` writes it, and by the tools |
| `dv_dual_sf.lua` | per node: TX queue, a pending handshake, duplicates seen, channel buffer, pulls and jitter timers; routing tables | RTS/CTS/DATA/ACK/NACK, retries, cascade, requeueing; adverts, pulls, promiscuous reception, eviction | runs inside a `ScriptedNode` |
| `sim_manager.py` | registry, task and subprocess of each simulation, semaphore, subscribers; `status.json` and `events.ndjson` on disk | create, import, run, cancel/delete, scan, subscribe | spawns `lus`; SSE clients |
| `interactive_manager.py` | REPL subprocess per session, reader task, lock, response queue, WebSocket connections, `events.ndjson` | create, send command, broadcast, close, delete, idle loop, shutdown, export | spawns `lus -i`; writes to `sim_manager`'s directory on export |
| `event_index.py`, `dm_breakdown.py` | LRU caches of parsed event files, ETags | build, query, invalidate | reads files that `lus` is writing |
| `topo_srtm.py` and its routers | none | link matrix of a terrain survey | writes scenarios |
| `analyze.py`, `delivery_summary.py`, `dm_diff.py` | none | reports on an event log, after a warm-up cut | read the log of a run |
| REPL, `main.cpp` | exit status, events file | batch run, interactive commands | SimController |
| `JsonConfig`, `ExpectRunner`, other topology services, generators, pages | configuration, output | parse, format, report | - |

What is hard here, part by part:

* **Engine.** One thread, but many actors: each callback may queue a frame,
  retune, or query its airtime in the middle of a phase. A collision is judged
  once, when the later of two frames is registered, against the list of frames
  then in flight; frames may be registered now and *start later* (deferred by
  the RX->TX turnaround); ended frames leave the list in the next step; nodes
  are born late, die while transmitting and boot with a random delay. The
  properties: no overlapping pair is missed, nobody hears while transmitting,
  listen-before-talk excludes, at most one frame per sender, no frame of a dead
  node, every run ends.
* **Timers.** Cancelling is lazy, re-arming reuses an id, callbacks arm and
  cancel inside the loop that fires. The property: the firmware cannot tell the
  wheel from a plain table of deadlines.
* **Mesh.** A message is retried, handed to another neighbour, requeued and
  delivered twice while frames and ACKs get lost; a pull is decided now and sent
  after a random delay in which the message, another pull or an eviction may
  come. The properties: pulls are spaced and meant, gossip stays on its layer,
  eviction trusts only what is so, one advertisement is enough.
* **Simulation service.** asyncio tasks interleave at every await, a subprocess
  outlives the server, the server may die between two writes, saving a status
  may fail. The properties: the semaphore bounds the processes, every simulation
  is settled by someone, what is shown as completed was completed and stays so,
  every stream ends and tells the outcome.
* **Interactive sessions.** Events, prompts and responses share one stream, a
  command may time out before its answer comes, and any of five handlers may
  close the session at any await of another. The properties: output goes to the
  right caller, events are saved in order, a close leaves nothing behind and
  tells everyone, nobody waits for ever.
* **Readers of the log.** The index is cached while the file grows, windows are
  read as byte ranges, and the reports join lines that belong together only by
  time, pair and order, after a cut that may fall anywhere. The properties
  relate each report to the run that wrote the log.

The full list of hazards, each with its line and the properties that cover it,
is under `hazards` in `PROJECT.json`.

## Modules

| Module | Models | Used by |
|---|---|---|
| `CollisionModel` | `core/physics/CollisionModel`: the operator `EvaluateCollision` | `SimController`, `MCCollisionModel` |
| `SimController` | the engine, with LbtModel, SimRadio, LinkModel and a node's queue, tuning and airtime log | `MCSimController`, `SimController_proofs` |
| `NodeTimers` | abstract: what a node is promised of its timers | instantiated by `FirmwareTimers` |
| `FirmwareTimers` | TimerWheel and the two maps of FirmwareNode | `MCFirmwareTimers`, `FirmwareTimers_proofs` |
| `SimManager` | `sim_manager.py`, the SSE endpoint, the export of a session, `lus` as a process | `MCSimManager`, `Simulations_proofs` |
| `WebCache` | the caches of event index and breakdown, staleness by mtime, ETags | `MCSimulations`, beside `SimManager`; `Simulations_proofs` |
| `SessionCommands` | one session's command channel: reader, lock, response queue, timeouts, file | `MCSessionCommands`, `SessionCommands_proofs` |
| `SessionRegistry` | the life of sessions and of their WebSocket connections | `MCSessionRegistry`, `SessionRegistry_proofs` |
| `RunLog` | the event log of a run, line by line: a handshake, beacons, births, deaths, warm-up | extended by the next four |
| `EventQueries` | `event_index.py`: the index and its queries | `MCAlgorithms` |
| `RadioReport` | analyze.py: airtime, duty cycle, concurrency, SFs, drops, budget tiers | `MCAlgorithms` |
| `SetupReport` | analyze.py section 26: RTS attempts and what became of them | `MCAlgorithms` |
| `LifecycleReport` | analyze.py: phases of births and deaths | `MCAlgorithms` |
| `LinkMatrix` | `compute_link_matrix` and its two endpoints | `MCAlgorithms` |
| `MeshFlights` | a directed message in dv_dual_sf, as its log lines tell it | extended by `FlightReport` |
| `FlightReport` | analyze.py on deliveries, losses and paths; `delivery_summary.py`, `dm_diff.py`, `dm_breakdown.py` | `MCMesh`, `FlightReport_proofs` |
| `ChannelGossip` | channel messages in dv_dual_sf | extended by `GossipReport`, `ChannelGossip_proofs` |
| `GossipReport` | analyze.py section 23 on channel gossip | `MCMesh` |
| `MC*` | model values, instances; `MCAlgorithms`, `MCSimulations` and `MCMesh` put parts side by side that share no state, one per behaviour | the `.cfg` files |
| `*_proofs` | theorems | - |

### SimController

One call of `step()` is a sequence of phases, and `phase` says which is next.
`Lifecycle`, `Startup`, `CommandsDone`, `Compact`, `TickTimers` and `EndStep`
are one action each. The loops inside a phase are one action per iteration,
because a later iteration sees what a callback did in an earlier one:
`FireCommand` per due command in index order, `Deliver` per ended frame in list
order, `DrainNode` per node in index order and, per queued packet, one of
`Refuse`, `RefuseDuty`, `TxFail`, `Transmit` and `RouteInWarmup`.
`ConsoleCommand` is the REPL between two steps.

* The **in-flight list** is a set of frames with an `id` in registration order;
  `deliverReceptionsForStep` and the collision scan only depend on that order.
* A **node** is external. `React` says what it may do in a callback: nothing,
  queue one packet of `Packets`, retune to one of `Tunings`, or ask for its
  airtime over one of `QueryWindows`. One act per callback is a bound; a node
  that does more does it over several callbacks, of which there are many in a
  step. Whoever is called back in one iteration reacts at once; their reactions
  are independent because each one touches the state of its own node only.
* The **channel** is a constant matrix `Links`. Fading is a member of `Fades`
  for each reception and random loss a subset of the receivers.
* The **airtime log** is a set: a node has one frame at a time, so the deque is
  ordered by end and dropping leading entries is dropping the old ones.
* `aired`, `received` and `lifeLog` are history variables; no action reads them.

Time is in ms, and small: `Airtime` is a table in place of the LoRa formula, so
that an airtime is 2 to 6 ms and a turnaround 1 or 2.

### FirmwareTimers and NodeTimers

The heap is a set; entries with the same deadline leave it in any order
(`priority_queue` promises none). `Sweep` is the loop that drops cancelled
entries, `Fire` a `popDue` with the look-up in `_handle_to_id`, `EndTick` the
`popDue` that returns false. Between `Fire` and `Return` the firmware is in
`onTimer` and may arm and cancel. `NodeTimers` has one variable for all this,
`deadline`, and the refinement mapping reads it off the maps and the heap.

### SimManager and WebCache

Everything runs on one asyncio loop, so the code between two awaits is one
action: `StartTask`, `Acquire`, `Fork`, `Spawned`, `Waited`, `Finish` and
`SpawnFails` are the stretches of `_run_sim`, and `DeleteSim` is `delete_sim`
together with `cancel_sim`, which never suspend. `LusOpens` and `LusExits` are
the subprocess. `Restart` kills the server at any point, also in the middle of a
create, import, save or delete (`Leftovers` lists what such a crash leaves on
disk), and scans the directory. `ours` says whether the record that a task holds
is still the one in the registry: deletion drops it and a rescan replaces it.

`WebCache` has the files as sequences of events with the tick of the last write,
the two `OrderedDict`s as sequences from least to most recently used, and one
request at a time in three steps (`load`, `store`, `answer`), because the
endpoints have no await but `lus` writes between any two of them.

### SessionCommands and SessionRegistry

`SessionCommands` follows one session. What `lus` prints is a sequence of lines,
each with the prompts that precede it on its line, its kind and the command that
caused it; the reader turns lines into events and responses, and `Ask`, `Write`
(or `StdinBroken`), `GetResponse` and `TimeOut` are the stretches of
`send_command`. A response is the set of commands whose lines it holds, so a
response given to the wrong caller shows.

`SessionRegistry` is the rest of `interactive_manager.py`. A broadcast walks the
*live* list of a session's connections with an index, one `await` each (`Send`),
and prunes the failed ones at its end; `Killed` is the `wait_for` of the process
with the cancellation of the reader, in the middle of its own broadcast if need
be. `raced` marks sessions closed during their own spawn and `missed` those
whose connections an overtaking deletion or unregistration left untold.

### RunLog and its readers

A log line is a record. `RunLog` says which lines one run of `lus` writes and in
which order: the engine's own at each phase of a step, and those of the script
between, for a handshake of up to three attempts, beacons of other nodes that
hit or miss its frames, nodes that announce themselves or not, a profile, a
warm-up and periodic snapshots. `scene` is the configuration of a behaviour.
What really happened is kept apart (`flown`, `tries`), so that `RadioReport`,
`SetupReport` and `LifecycleReport` can be held against it; `EventQueries` is
held against the plain reading of the whole log. Dictionaries keyed by time,
pair or node are functions, `Counter`s are bags in the form of functions.

### MeshFlights, ChannelGossip and their reports

`MeshFlights` is the part of the MAC that decides what the log says of a
directed message: the queue, RTS with retries, the cascade over `Routes`, DATA
and ACK, each of which may be lost, requeueing of an exhausted item, and the
duplicate check of a receiver that has already forwarded. `FlightReport`
computes the delivery sections and the two summary tools from the log and
relates them to the run and to each other for *every* possible warm-up cut.

`ChannelGossip` has, per station, the buffer with its `seen_by` marks, pending
pulls with their jitter timers, the pulls it remembers, its queue and the
answers it gave; a broadcast is decoded by any subset of those in reach if
losses are left. `journal` is the event log, `had` who has had which message
since when.

## Runs

| Run | Instance | What it shows |
|---|---|---|
| `algorithms` | every pair of signals over 10 offsets, 3 airtimes, 4 SNRs, 2 coding rates, 2 SFs, 2 preambles; surveys of 1, 3 and 4 nodes; configurations of 3 births and deaths with 2 commands; 8 scenes of RunLog of 5 steps | the collision test agrees with a reference that counts ticks; the link matrix is usable and keeps the best links; index, queries and the radio, RTS and lifecycle reports tell what happened |
| `air` | 3 nodes, 1 and 3 hidden from each other, energy LBT, 3 frames of 2 or 3 ms in 10 ms, turnarounds 1 and 2, losses, a drop directive, duty window 6 and budget 4 with queries | no reception overlapped a frame that destroys it or its receiver's own transmission; the turnaround is respected; the directive drops exactly its window; the hard block keeps the budget in every window |
| `carriers` | 3 nodes, 2 carriers, 2 SFs, retuning with a blind window | energy LBT excludes whatever the nodes retune to |
| `lifecycle` | CAD LBT, fading, modem failures, oversized packets, warmup, 3 scheduled commands, a console, steps of 1 or 2 ms, jitter, one node born at 3 and one dead at 5 | the slot agrees with the list, the dead are silent, due commands wait for a birth only, lives are told in order, the run ends |
| `half_duplex_overwrite` | 2 nodes, one-way link | **violated**: a node hears a frame that overlapped its own transmission |
| `timers` | 3 ids for 2 slots, delays 0 and 3 under drift, 4 handles, 4 ms | the wheel implements NodeTimers |
| `sims` | 3 simulations, 1 slot, 2 deletable, 1 exportable, 1 with failing saves, 1 restart; and 3 stored simulations, 1 still running, caches of 2 and 1 entries, 3 events, 2 ticks | the slot is never exceeded, nobody is stranded, completed is true and durable; answers are fresh, the caches hold the most recent live simulations |
| `sims_streams` | 2 simulations, 2 SSE connections, 1 restart, no deletion | every stream ends with the outcome, every simulation settles |
| `commands` | 2 connections, 3 commands of 3 kinds, up to 2 events per step, a configuration with or without nodes | output goes once and to its caller until a timeout, events are saved in order, nobody hangs |
| `sessions` | 1 session, 2 connections | a close leaves nothing, tells everyone and is the last word; every close comes about and ends |
| `mesh` | directed messages: 4 nodes with 2 routes, 1 message with a retry or a requeueing or 2 messages, 15 to 24 log lines; gossip: 8 settings of 3 nodes over 5 ticks | reports and paths are true of the run under every cut; pulls, layers, `seen_by` and single advertisements are sound |
| `dropped_pull` | the gossip settings | **violated**: a decoded pull is dropped as a repetition of another |

Some run properties are conjunctions of parts that answer one question and are
each stated with a comment of its own in the module: `FlightReportIsTrue`
(messages add up, the tools agree, nothing vanishes, loss stages),
`PathsAreTrue`, `PullsAreDisciplined`, `GossipReportIsTrue`, `QueriesAreTrue`,
`RadioReportIsTrue`, `SetupReportIsTrue`, `LifecycleReportIsTrue`,
`MatrixIsSound`, `OutputIsPaired`, `NobodyHangs`, `CacheIsRecent`,
`CloseIsClean`, `ClosesEnd`.

Why the bounds are enough for the interesting cases. In `air` three frames make
the smallest history in which a frame is deferred behind a second one while a
third overlaps both, and the duration lets each be delivered and compacted;
fewer frames never defer. A window of 6 holds two frames of 2 and three frames
slide over its edge. In `carriers` two frames of different SF and a hop between
them are what the ask-time rule is about. In `timers` four handles allow one
re-arm, one cancellation and a full table in the same tick. In `sims` a second
simulation is needed to occupy the slot and a third to wait behind a waiter; the
other features are given to some simulations only, to bound the state space, and
one simulation has all of them; a cache of 2 with 3 simulations evicts. In
`commands` three commands are one that times out, one that takes its late answer
and one that waits for the lock. In `sessions` two connections are the least
with which a broadcast can be overtaken; more sessions interact through the cap
and the one-at-a-time sweep only, and the theorems of `SessionRegistry_proofs`
are for any number (the liveness is checked for one). In `mesh` four nodes give
a cascade and a loop-free detour, and three stations a holder, a puller and
somebody who overhears both. In `algorithms` three attempts let a timeout
overtake an answer, and a third node supplies the interference. The mutants
listed in `PROJECT.json` are plausible bugs, one per property, that each of
these instances finds.

Named bounds: `MaxTx` (frames queued), `Duration` (which the code has as well)
and `MaxJitter` in SimController, `MaxHandle` and `MaxNow` in FirmwareTimers,
`MaxRestarts` in SimManager, `MaxEvents` and `MaxClock` in WebCache,
`MaxCommands`, `MaxStepEvents` and `InitEvents` in SessionCommands, `tries`,
`maxBeacons`, `snaps` of a scene in RunLog, the fields of a `Conf` in
MeshFlights (sends, retries, requeues, log lines), `Horizon` (of time),
`MaxDelay` and the `losses` of a setting in ChannelGossip, and `TraceBound` in
FlightReport, the code's own limit on a traced path made smaller. `MaxSessions`,
`MaxConcurrent`, `MaxDigest`, `MaxPulls`, `MaxAds`, the windows and the cache
sizes are configuration of the code with small values.

Deadlock is checked except in `algorithms`, `mesh` and `dropped_pull`, whose
behaviours end when their input is used up, as the log of a run ends; `Ended`,
`Over`, `Quiet` and `Stopped` are the explicit stuttering of a system that has
finished.

## What the code does not promise

* `NeverHearsWhileTransmitting` holds in `air` because with `EnergyThreshold`
  below every link, and links both ways, a node that hears a frame is deferred
  or refused, and is sent none while it transmits; the theorem
  `DeafWhileTransmitting` has it of every such network (`AllDefer`). On a link
  one way or below the threshold a node may transmit twice during one incoming
  frame, and `half_duplex_overwrite` shows the hole.
* `TurnaroundRespected` is stated for networks of one carrier: a node that
  retunes away and back has not noticed the frame.
* `LbtExclusive` is stated for energy mode; a CAD detection may miss by design.
* `ForcedDropWindow` is stated for a lone wildcard directive. With several
  directives the first that drops hides the frame from the later ones
  (`Counts`).
* `LivesInOrder` allows node_ready after node_died (observation 7).
* `CompletedIsTrue` and `CompletedIsDurable` exempt simulations whose status
  could not be saved and those that a crash cut short while they were being
  created or deleted; `StreamsEnd` is checked without deletions (observations 1,
  2 and 6).
* `AnswerIsFresh` exempts a write in the tick that stamps the cached entry and
  bodies that `lus` overtook between the load and the ETag (observation 12).
* `OutputIsPaired` says that output goes to its caller until an earlier command
  has timed out, and `EventsSavedInOrder` exempts events that were printed on
  the line of a prompt (observations 5 and 13).
* `CloseIsClean` and `ClosedIsLastWord` exempt sessions in `raced`, and the
  former the connections of sessions in `missed` (observation 14).
* `SeenByIsTrue` and `OneAdIsEnough` are stated where no frame is lost and
  nobody is throttled, and `ChannelsStayLocal` exempts what a gateway posts
  itself (observation 15).
* `NothingVanishes` exempts a message of which a copy came back to its
  originator: it acknowledges that copy and drops it (`origin_loop_drop`,
  `dv_dual_sf.lua:11320`), an event that no report takes for the end of the
  message. A forwarder whose routes are gone would drop one with
  `send_no_route`, which section 8 leaves unresolved; routes are fixed in the
  model, and `RouteAssumption` gives each forwarder one.
* The reports are held to what they can know: `SetupIsTrue` leaves out attempts
  whose answer a timeout overtook, `PathIsTrue` says how far a trace through
  parallel branches is still true, and `PhasesAreTrue` excludes the
  configurations in which phases overlap (observations 16 to 19).

## Fairness

`FairSpec` of SimController is weak fairness of the whole next-state relation:
the engine is a loop in one thread that nobody blocks, and a callback returns.
The console alone cannot delay the loop forever because its commands are bounded
by what a node may queue (`MaxTx`, and nobody retunes in that instance); an idle
command is a stutter.

`Fairness` of SimManager, taken by `RunsSpec` of `sims_streams` (its steps
without deletion and export), assumes that the asyncio loop runs every task
that is ready (start, semaphore hand-over, the three awaits of `_run_sim`), that
an open SSE connection drains its queue, and that `lus`, which simulates a
finite duration, exits. Nothing is assumed of users, of crashes, of client
disconnections or of a spawn failing.

`FairSpec` of SessionCommands assumes that `lus` boots and works through its
input unless it dies, that the reader task reads what is there and sees the end
of the stream, and that a caller who has the lock writes and either gets a
response or its timeout: the 60 s of `send_command` are why a silent `lus` hangs
nobody. Nothing makes users send or `lus` die.

`FairSpec` of SessionRegistry assumes that the event loop runs every task that
is ready, that `terminate()` or, after 3 s, `kill()` ends `lus` (`Killed`, and
`LusExits` after an aborted close, whose signal was sent), that the cleanup loop
looks at idle sessions, and that an endpoint whose connection is lost or quits
unregisters. No user is assumed to do anything.

## Proofs

TLAPS proves the following for every value of the constants that satisfies the
named assumptions of each module (`ConfigAssumption` and `CollisionAssumption`;
`FirmwareTimersAssumption`; `SimManagerAssumption`; `SizeAssumption`;
`CommandBounds`; `SessionAssumption`; `SignalAssumption`; `GossipAssumption`;
`MeshAssumption`, `NoneAssumption`, `RouteAssumption`):
any number of nodes, links, simulations, sessions and connections, any airtimes
and thresholds, any configuration of LBT, duty cycle, warmup, commands, drops
and lifecycle, any network and any posts and beacons of the gossip, any routes
and any set of directed messages. TLC evaluates each of these assumptions in a
run. They say what a configuration that the code accepts gives: numbers are
numbers, tables are defined where they are read, in `GossipAssumption`, nodes of
different layers hear each other only where one of them is a gateway, and in
`RouteAssumption`, a node that can be handed a message has a next hop for it
other than the one it comes from.

`SimController_proofs`:

* `TypeCorrect`: `[]TypeOK`. `TypeOK` is inductive because it includes what
  types alone do not give: a verdict is about a frame in flight, an iteration's
  frame has elapsed, and a batch belongs to an alive node in the register phase.
* `OneFlightPerSender`, `SlotAgrees`, `NoGhostFrames`, `CollisionsComplete`,
  `ListenBeforeTalk`: read off from one inductive invariant, `IInv`.
* `TurnaroundHolds`, from `RInv`.
* `CommandsAwaitBirth`, from `Cycle`.
* `WindowIsExact` (`[]ForcedDropWindow`), from `OnceOnly` and `Counted`.
* `LivesAreInOrder` (`[]LivesInOrder`), from `Lived` and `Cycle`.
* `BudgetIsHeld` (`[]DutyBudgetHeld`, if no node queries a window shorter than
  the configured one), from `BudgetInv`.
* `DeafWhileTransmitting` (`[]NeverHearsWhileTransmitting`, where everyone
  listens before talking and hears whoever hears it), from `DeafInv`.

`CollisionsComplete` is the theorem that matters most. The verdict on a pair is
taken once, when the later frame is registered, and a verdict is dropped with
its frame; so the invariant must say that nothing that could still destroy a
frame has left the list unjudged. `IInv` adds four facts to the properties: ids
are unique and smaller than the next (`IdsUnique`); what has been aired and is
no longer in flight has ended by now (`Landed`), so that a frame registered now
cannot overlap it; what has been received had ended (`Settled`), so that no
later frame can destroy it; and every frame in flight that some aired frame
destroys at a receiver has its verdict (`Judged`). Most actions do not touch the
air at all, and the proof classifies the steps first (`StepClasses`): quiet
steps, `Lifecycle` (which drops frames together with their history), `Deliver`,
`Compact` and `Transmit`, where the work is.

`ListenBeforeTalk` uses `Landed` again: a frame that overlaps the new one must
be in flight, its sender is within reach on the same carrier, and so it was in
`Audible` when the node asked.

`TurnaroundHolds` needs the history of the radio: `RInv` says that a node that
heard of a frame has a window that reaches at least to the end of that frame and
its turnaround (`Told`), that no frame has a negative length (`FramesLast`), and
the shape of the radio's record; a start that is deferred by that window can
then not precede it. `CommandsAwaitBirth` needs to know what was due when the
commands were last looked at and that nobody is born between then and the end of
the step (`Cycle`).

`WindowIsExact` compares a counter with the size of a set that other actions
fill. What ties them together is that a frame is counted once however many
receivers it has, and is delivered in one step (`OnceOnly`); then the frames
that were counted and not yet spent by the directive are, one by one, those that
somebody received (`Counted`), through every birth, death and collision in
between.

`DeafWhileTransmitting` is about what the engine remembers of a receiver's own
transmissions: those in flight and, of the earlier ones, the last. `Covered` says
that if any of them touches a frame in flight, the last one does. Where all
defer, nobody in reach of a frame transmits before it is delivered, so the memory
is not overwritten while it matters (`LinkedAreSilent`), and a frame starts only
when the transmissions of those in its reach are over (`LastOver`), so that the
last of them reaches furthest into it. Both need that the in-flight list holds no
elapsed frame when transmissions are registered (`StillThere`). The hypothesis
`AllDefer` is what the run `air` is an instance of, and links both ways are
needed: a sender that does not hear the receiver may start a short frame in the
settling time of one transmission and end it before the deferred start of the
next.

`LivesAreInOrder` needs to know, for each node, what its log may say at this
moment of the step (`Lived`): a node that is not born has said nothing, one that
is overdue to boot has not said "ready", and a death stands at the end unless
the boot was due later. Proving it corrected the property, which used to compare
the two times alone: a boot staged between two steps happens at the second of them, so with steps
longer than 1 ms a node can announce itself after a death that was due *later*
than its boot. `LivesInOrder` asks for a whole step in between, which is what
the code keeps.

`BudgetIsHeld` speaks of every window of `DutyWindow` ms, wherever it begins,
while the engine adds up one window when it admits a frame. `BudgetInv` says of
every window that what has been aired fits (`WithinBudget`). A new frame changes
the sum of those windows only in which it is on the air; they end after it was
admitted, so the other frames in them ended too late for the log to have
forgotten them (`Logged`), each has an entry of its own because a node's frames
follow one another (`Successive`), and the sum over the window is at most the
sum over the log (`LogCoversWindow`). The hypothesis `NoShortQuery` is needed:
an airtime query prunes the log by the window it is given (observation 8 below),
and all scripts of the repository pass the configured one. `MapThenSumSet` is a
recursive function over the subsets of its argument; it is shown to exist for
finite sets (`WeighsExists`) and not to depend on the order in which elements
are chosen (`SumRemove`).

`FirmwareTimers_proofs`:

* `TypeCorrect` and `WheelConsistent`: `TypeOK /\ Consistent` is inductive.
  `Consistent` says that the maps are inverse to each other, that every armed id
  has exactly one entry in the heap and it is not cancelled, that every other
  entry is cancelled, and that handles are never reused.
* `WheelRefines`: `Spec => Refines`, the refinement of NodeTimers, action by
  action. `Sweep` and a firing of nobody stutter. The mapping uses CHOOSE; the
  lemma `DeadlinesFollow` replaces it by a relation (`Shown`) that is easy to
  preserve.

`Simulations_proofs`, of SimManager: `ManagerTyped`, `ProcessesBounded`, `NobodyStranded`,
`CompletedTold` and `CompletedStays`, all from `ManagerInvariant`. Its invariant
`MInv` is a statement about each simulation alone (`Honest`), plus two about the
semaphore: who waits is queued, once (`Queue`), and no more tasks hold a slot
than there are (`Slots`). `Honest` relates the five places in which a
simulation's state lives: a task that is past a point has a record, a process or
an outcome that agrees with it, and the task's own record may differ from the
registry's only if it was deleted or replaced (`ours`). `Faithful`, a part of
it, says that a completed record stands on a completed run, in memory and on
disk. No simulation's invariant mentions another, so each action is proved for
the one simulation it works on, and a crash, which touches all, once for all.
`StreamsTellTheOutcome` adds (`Streams`) that the sentinel in a client's queue
is preceded by the status the registry has by then, that this status is final,
and that it does not change any more (`Steady`). It is stated for servers on
which nothing is exported. The rescan after an export puts
fresh records in the registry while the old tasks run on and tell their
subscribers about the old ones (observation 9), so without that hypothesis the
property is false of some schedules that `sims_streams` does not contain.

The same module, of WebCache: `CachesKeepTheRecent` and `AnswersMissNothing`, from
`Typed /\ Recent /\ UpToDate`. `Recent` ties each `OrderedDict` to the history of
its uses (`Tied`): it is the end of that history. `UpToDate` follows a request
through its three steps and a file that `lus` keeps writing: what a cached entry
lacks of its file was written in the tick of its stamp or later (`Covers`), and
what a body lacks of the file it was tagged with, in that very tick, unless
`lus` overtook it (`Shows`).

`SessionCommands_proofs`: `TypeCorrect`, `EventFileIsTrue` and `OutputPaired`.
What `lus` prints flows one way, from its input to its output, into the pending
response, the queue and an answer; `Ordered` says that no stage is ahead of the
next, `Calls` that the lock is a queue of calls of which the first alone may
have been written, `ProbeFlow` where the two commands of the probe are. Together
they make a response that is handed out twice, or to a call that came before its
command, impossible. `OneAtATime` adds that without a timeout nothing but the
answer to the waiting call is under way; after one nothing of the kind can be
said, as observation 5 shows. `EventFlow` is the same for events and the file.

`SessionRegistry_proofs`: `RegistryInvariant`, `CloseLeavesNothing`,
`ClosedSpokenLast` and `CloseIsTold`. `Tidy` says of one session what its
status, process, reader, file, tables and broadcasts may say of each other. The step that needs it is the
close: a session that is open and not being spawned is still known (`s \in
known`), so its `lus` is killed and its reader cancelled before anybody is told,
and from then on no broadcast but that of "closed" is under way.

`CloseIsTold` proves `CloseIsClean` in full, with the types and who is told of
the close. Its invariant looks at the place of the broadcast in the list that it
walks while the list changes (`Reached`): a connection that listens and has not
heard stands at that place or behind it, until the session is excused because a
connection ahead of the place left (`missed`) or the spawn was overtaken
(`raced`). `Honest` says why the reader's own broadcast takes no listener off the
list: who is found dead never listens again. What remains is what filtering a
list does to places (`WithoutKeeps`, `StaysBehind`): who stays behind a place
that nobody ahead of it left is still behind it. `Without` is a recursive
function for that reason, and its lemmas go by induction over places (`Climb`,
from the well-foundedness of the naturals).

`ChannelGossip_proofs`: `PullsKeepDiscipline` and `GossipStaysLocal`, from
`Disciplined`, `SeenByIsHonest`, from `Truthful`, and `OneAdSuffices`, from
`Carried`. The core of `Disciplined`,
`Sound`, speaks of one station: a message it holds or has queued has been
posted, is at home on its layer, and a gateway carries its own only; a pull that
is pending is for a message it misses, has a timer, and is not within the window
of the last pull; a timer's target is a station whose frames it decodes. Each
handler keeps the state it is given sound (`DigestSound`, `PullSound`,
`BroadcastSound`), so one argument (`Transmitted`) serves every kind of frame
and every subset of receivers. The spacing of pulls then follows from what a
station remembers (`Remembered`).
`Truthful` adds that what a station holds or has queued it has had, that a
gateway has no pull pending, and, while no frame was lost and nobody throttled,
that a neighbour in `seen_by` is vouched for (`Honest`): it has had the message,
or the broadcast that will reach it is in the queue. Each handler marks only
whom it can vouch for (`DigestHonest`, `PullHonest`, `BroadcastHonest`): the
sender of a beacon or of a broadcast has what it names, and a pull is marked by
its target alone, which the requester decodes because it pulls from whom it
heard. No symmetry of the neighbourhoods is needed for that. When the broadcast
leaves the queue (`TruthBroadcast`), each of the decoders holds the message, or
is a gateway, or has said that it throttles, so nobody is left vouched for by a
queue that no longer has the message.
`OneAdSuffices` proves `OneAdIsEnough` for any number of stations, under the
hypothesis that a beacon may start a pull at all (`MaxPulls # 0`; the Lua script
takes 0, and nobody pulls then). The danger is that a pull is given up on account
of another that leads nowhere: who overhears a pull drops its own, and a target
drops a pull that it takes for answered. `Carried` therefore says of the lone
message that whoever has had it still holds it; that a timer points at a station
that has had it (`Sourced`); that a station which remembers having answered a
requester has the message in its queue unless the requester has had it
(`Replied`), and likewise for a pull that was sent (`Recalled`); and that once
anybody advertised it, everybody that takes part has had it, has a pull pending,
or some queue still has the message (`Promised`). A pull then always leaves the
message in its target's queue (`CarriedPull`), which makes up for all the pulls it
cancels, and its broadcast settles everybody at once (`CarriedBroadcast`). TLC
checked `Carried` on cliques with and without gateways before it was proved.

`FlightReport_proofs` is about the log that a mesh writes and what the reports
make of it: `ReportIsTrue` proves `FlightReportIsTrue` in full, and the parts of
it that say most have theorems of their own. The steps of the MAC are many, and
each appends several events, so what a step does to a node is cut into few kinds
first (`OneNode` for a step at one node, `Receives` for the hand-over of a frame
between two), and every invariant goes over these.

* `FlightsLegal`, from `Legal`: the types, and what the routes promise. Who holds
  a message could have got it, is not its destination and hands it to a next hop
  of its own, and a frame on the air is the pending DATA of its sender.
* `StagesAreTrue` (`[]LossStagesAreTrue`): a ledger (`Ledger`) of the four
  differences that section 25 takes between kinds of events (`Net`): those of a
  concatenation add up (`NetConcat`), and each step moves them by what it takes
  off the air, loses, or opens and closes at a node.
* `NothingIsDropped` (`[]NothingVanishes`), from `Truth`. `Kept` says that who was
  given a message holds it, has handed it on, or has told of its end. `Rooted`
  says that the copies of a message have a depth, greater at each node than at
  the one it had the message from. Of the nodes that were given an undelivered
  message one is deepest (`Deepest`); it has handed it to nobody, so it holds it
  still (`SomeoneHolds`). `LogTrue` ties this to the log, whose last word on a
  message is where it is (`WordIs`).
* `ReportIsTrue` adds the counting. What `iter_events` leaves of a log is its end
  (`SinceIs`, since the times never decrease), and such an end is `Sound`: a
  message is enqueued once, at its originator and before anything else is said
  of it, delivered once, and given up only together with an exhaustion. From
  that every section is computed by cutting sets in two (`Splits`), by
  bijections between events and messages (`SameSize`, `TallyCarries`), and by
  fibres: the sums over buckets and counters are sizes of fibres of a function,
  whose sum has a closed form (`FibersAdd`), so the recursive functions of the
  community modules need no induction over data.

What a recursive definition computes can be proved where it is a recursive
function. Like `Without` above, `FlattenSeq` is shown to exist and to be a
sequence (`FlattenType`) by looking at a least index at which it would not be
(`LeastNumber`), with the well-foundedness of the naturals from the library. The
induction theorems of the library themselves take an operator as parameter and
cannot be used.

`Algorithms_proofs` is about data at rest. `CollisionTestIsExact`,
`CaptureIsExclusive` and `InterferenceIsMonotone` hold for all natural starts
and airtimes, SNRs, spreading factors, preambles and coding rates 5 to 8. The reference decides by counting
the ticks of sets; `IntervalBounds` and `HitIsInterval` say that these sets are
intervals and how many ticks they have, and the rest is arithmetic.

`MatrixSound` proves `MatrixIsSound` for every `survey` of which `IsSurvey` says
that its names are distinct and its places, draws and limits numbers; the run
evaluates that of its own surveys (`SurveyAssumption`). How many pairs are ahead
of a pair is its place in the sorted list (`Ranks`), so the list needs no
algorithm that sorts. What remains of the pass over it, a recursive function
(`PassExists`, `PassIs`), is `KeptAreGreedy`: a pair is kept if and only if at
both ends fewer than the cap of the kept pairs *ahead of it* end there. The cap
follows by looking at the last pair of a node, and that only better pairs crowd
out a pair at its full end, from the sizes of sets. That the listing is
irrelevant is the same characterisation for two lists: the pairs of names of what
is ahead of a pair are the same in both (`FaresAlike`), so the first pair that
fared differently would be none (`KeptAlike`).

Only model-checked:

* liveness (`RunEnds`, `StreamsEnd`, `EverySimSettles`, `NobodyHangs`,
  `ClosesEnd`), which the prover cannot do under fairness;
* `PathsAreTrue`, about the path section 19 traces backwards and the shortest
  paths of section 1. It is not a theorem for every value of the constants: the
  walk gives up after `TraceBound` hops (50 in `tools/analyze.py`), so a flight
  whose copy really took more hops is left out of the section. The run's bound is
  above every path its messages can take;
* `QueriesAreTrue`, for a reason of the same kind: a window of more than 20000
  events is thinned, so `WindowIsFilter` holds for logs below that size, which a
  run of any length need not respect;
* the other reports (`RadioReportIsTrue`, `SetupReportIsTrue`,
  `LifecycleReportIsTrue`, `GossipReportIsTrue`), which fold and sort logs of whole
  runs of other modules: what a fold of the community modules computes for every
  log is an induction over data, and `SortSeq` has no definition the provers see.

Where a theorem proves the type invariant of a module, the runs do not check it
again.

## Observations

Disagreements between the code and its documentation that a run exhibits are
listed under `findings` in `PROJECT.json`: `half_duplex_overwrite` and
`dropped_pull`. Others that were met while modelling; the models contain the
behaviour and the properties leave room for it.

Service and engine:

1. **Deletion during the spawn.** `delete_sim` cancels what it finds in
   `_processes`, and `lus` is registered there only when the await of
   `create_subprocess_exec` returns (`sim_manager.py:219-222`, `322-331`). A
   deletion in between removes the directory and leaves `lus` running, although
   the docstring says "Cancels the simulation first if it is still running."
2. **Deletion of a simulation that waits.** Its subscribers are forgotten
   (`sim_manager.py:251`) without the sentinel that ends their streams; a client
   that watches a queued simulation waits forever.
3. **Cancelled handles.** `TimerWheel::_cancelled` only grows. The comment at
   `TimerWheel.cpp:15` bounds the scan by 64 pending timers; a node that re-arms
   a timer once per second adds 3600 handles per simulated hour, and each
   `popDue` scans them.
4. **Zero delay in a callback.** A timer armed with delay 0 inside `onTimer` is
   due in the tick that is running (`TimerWheel.cpp:43`); firmware that does so
   every time keeps `tickTimers` in its loop.
5. **Interactive commands.** `send_command` drains stale responses before it
   takes the lock (`interactive_manager.py:353`), and responses of several lines
   are flushed at the next prompt, so a response can be given to the wrong
   command.
6. **Missing status.** A directory with a partial `events.ndjson` and no
   `status.json` is taken as completed by the scan (`sim_manager.py:96-135`).
7. **Ready after death.** `processStartupAtStep` does not ask whether a node is
   alive, so a boot jitter that outlasts the life emits node_ready after
   node_died.
8. **Shorter airtime queries.** A query over a shorter window than the hard
   block's prunes the airtime log by that window (`FirmwareNode.cpp:157`), and
   the hard block forgets the rest.
9. **Export on a live server.** `export_session` (`routers/interactive.py:113`)
   calls `_scan_existing`, which takes running simulations for interrupted ones
   and shows them as failed; the comment at `sim_manager.py:118-119` expects a
   restart.
10. **Units of the duty cycle.** `simulation.radio.duty_cycle` is a percentage
    for the engine (`SimController.cpp:1070`) and a fraction for section 15 of
    `analyze.py` (1004-1012), whose budget comes out 100 times too large.
11. **Link matrix.** `n_links_kept` counts directed links; a node without
    coordinates is a KeyError in `generate_srtm` and an error 400 in
    `refine_with_srtm`; edges of equal SNR are kept by the order of the listing;
    refinement ignores the request's ground parameters and always uses a noise
    figure of 6.0.
12. **Caches.** The ETag is taken after the index was loaded, so a body can be
    pinned under the ETag of a longer file, although `event_index.py:499-503`
    explains the opposite; running simulations are served with a max-age; two
    writes in one tick of the modification time look the same; the breakdown of
    a deleted simulation stays cached, and it reads the file twice.
13. **Events at prompts.** The first event that a command prints is on the line
    of the prompt and is taken for response text, never saved nor broadcast
    (`interactive_manager.py:526-573`); a response whose first line is an event
    is not queued until the next prompt, and the command times out. A `:lua`
    that prints nothing glues two prompts; the lines of `:events N` are saved
    again, out of order; a `:nodes` line is parsed with the name `proto=...`;
    `session.time_ms` never moves; a session of a configuration without nodes
    never becomes ready.
14. **Closing.** A close while `create_session` awaits the spawn leaves `lus` to
    nobody. A broadcast skips a connection when an earlier one leaves the list,
    and a deletion that overtakes a running close leaves connections untold.
    Shutdown cancels the cleanup loop in the middle of a close. Closed sessions
    stay in `_sessions`.

Mesh:

15. **Gossip.** The `promiscuous_receive` path of suppression
    (`dv_dual_sf.lua:3588-3594`, PROTOCOL.md:2865) is unreachable, because
    taking the message clears the pending pull first. `send_channel` does not
    ask whether the node is a gateway, so a gateway's own post is advertised on
    whichever layer is active. `seen_by` is optimistic when frames are lost.
    With a gateway among the direct neighbours no eviction counts as safe. A
    jitter timer that outlived its pull sends the rescheduled one early, to the
    old target. In the report the *last* reception of a node counts, against the
    docstring's first, and an author whose message was evicted can count as its
    receiver.

Reports:

16. **Deliveries.** The traced path is not the real one when branches run in
    parallel (docstring at `analyze.py:1432-1438`); delays along a path can be
    negative when a warm-up is cut; a message can be both delivered and
    exhausted, and section 14 counts it twice; "exhausted" may still be
    delivered later, and is not restricted to the originator; the class
    `unresolved:post_cts_data_or_ack` is unreachable; the headline counts
    commands that never fired. `trace_msg.py` looks for `origin_seq`, which
    nobody emits any more, and forwarders emit no `tx_enqueue`.
17. **RTS attempts.** A lost NACK is reported as an RTS that was not decoded; a
    late CTS is given to the latest attempt; when a timeout overtakes a frame on
    its way, its outcome is given to the retry; a response that never airs
    shifts the pairing of the following ones.
18. **Phases.** With deaths and no late starts "cold-start" covers the whole
    run; a death before the joins have settled makes phases overlap; two
    commands of one node with the same text in different phases are counted in
    the last; expected SF mismatches count as drops. `multiseed_summary.py`
    divides the sums of window bounds by the number of runs, also when fewer
    runs had that window.
19. **Radio.** Section 4 takes the decision for the start of a frame although
    deferred frames start later; `section_drops` joins labels since the cut
    only, against the docstring of `build_pkt_label_map`; `DROP_TYPES` lacks
    five kinds of drops; rows faster than the optimal SF are in no class; before
    the warm-up mark is written, reports count warm-up frames.
20. **Event index.** A window that is read as one stretch of bytes lacks
    node_started and node_died, which thinned and per-node reads keep; a node
    that is born late and never announced gets a wrong name and can take that of
    another; profile events before the boot are filed under a bare number; rx is
    logged after what the script emits on it.

## What is not modelled

* Links that change during a run: mobility, link overrides, background traffic,
  the path-loss formulas and the autoregressive fading process. They are
  floating point; their results enter as `Links` and `Fades`.
* The bytes: packets are lengths and labels; formatting, JSON and statistics are
  left out.
* `SimRadio::startSendRaw`, which the engine does not call in this build.
* `NodeRuntimeWrapper` and the firmware library behind it, which is not in this
  repository; `React` stands for all a node can do to the engine.
* Recurring timers, which only Lua scripts use.
* Of `dv_dual_sf.lua`: the distance-vector tables, joining, address keys and
  hash queries, mobile nodes. Routes are fixed in `MeshFlights` and direct in
  `ChannelGossip`.
* Of `analyze.py`: the sections on anti-spam, end-to-end ACKs, NACK reasons,
  tier routing, route decisions, routing tables, mobile nodes and layers, which
  count events of those parts; of the other tools, `capacity_summary`,
  `multiseed_summary`, the scenario generators, translators and plots:
  arithmetic on numbers that the modelled reports already give.
* Static pages, topology generators, file utilities, `ExpectRunner`: pure
  functions over files or presentation.

## Plan

Done: CollisionModel, SimController, FirmwareTimers, SimManager,
SessionRegistry, SessionCommands, the caches, ChannelGossip, and directed messages
with their reports with theorems; the event log with its index and reports, the
link matrix.

Next, in this order:

1. `Routing`: the distance-vector tables of `dv_dual_sf.lua`. Loops, staleness,
   convergence when beacons stop being lost; then the sections of `analyze.py`
   on routes over it.
2. `ScriptedTimers`: the wheel with recurring entries, as `LuaHost` uses it.
3. Changing links in SimController: link overrides and mobility between steps.
4. `multiseed_summary.py` over the phases of LifecycleReport.
