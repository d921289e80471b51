# A specification of traffic-sim

TLA+ modules about the engine of traffic-sim (`src/engine/`): what its concurrent, distributed,
replayed and algorithmic parts promise, checked with TLC on small instances and, for the core,
proved with TLAPS for every value of the constants.  Paths below are relative to `src/engine/`;
`x.go:10-20` are lines of the source.

## The system

traffic-sim advances a road network one tick at a time in one goroutine (the run loop).
Everything else talks to that loop through buffers it drains at tick boundaries, and everything
that happened is written to a record from which the run can be replayed bit for bit.

| Component | State it keeps | Operations | Talks to | What makes it correct |
|---|---|---|---|---|
| Signal programs (`signal.go`) | compiled phase table, offset, clearance | phase, onset and light at a tick | read by the kernel at any recent tick | phase and onset agree, clearance is answered from the history |
| Signal overrides (`sigctl.go`) | per program a history of holds, verbs buffered for the boundary, the record | accept a verb, install, supersede, renew, decline, lapse, sweep | verbs from the contract, read by `signal.go`, recorded by the recorder | no silent return to the fixed-time program, bounded starvation, replay reproduces |
| Controller contract (`natsio/contract.go`) | attached controllers, owner of each vehicle, hold-last records, announcements, pause gate, answered request ids | hello, claim, release, heartbeat, verb, intents, liveness sweep, despawn, announce, pause and resume | wire callbacks append, the run loop drains; director verbs go to the kernel | exclusive claims, only owners command, loss is bridged, the gate cannot wedge the run |
| Run loop (`natsio/run.go`) | the order of an iteration | control, drain, step, after-step, record, publish | all of the above | order, and abort when the record fails |
| Driver (`natsio/driver`) | per replica a fleet, claims in flight, held routes | observe, decide, claim, attach, fail over | contract over the wire | what it believes about its vehicles is so |
| Signal agent (`natsio/sigctl`) | its belief about each program, the signal table | decide, walk, renew | override verbs | its belief is what is displayed |
| Demand director and injection queue (`natsio/demand`, `director.go`) | position in the demand program; queue of spawn directives | verbs with lead, injection, expiry, restart | contract verbs, kernel | each arrival at most once, and once if a director lives |
| Kernel step (`engine.go`, `spawn.go`) | vehicles, lanes, spawners | one step: spawn, decide, move, cross, escape | all | deterministic; nobody in one place |
| Right of way (`rightofway.go`, `signal.go`) | stop duties | gates before boxes, merges and stop lines | reads everybody's position | no two vehicles on conflicting paths, no deadlock of yielding |
| Gridlock escape (`gridlock.go`) | stuck timers | strand one vehicle of a closed ring | kernel | takes no more than the jam needs |
| Routing (`routing.go`) and route following (`mobil.go`, `intent.go`) | per destination a static and an epoch table of next hops, lateral depths; per vehicle its route | search, splice, serve, roll over; cross, hop, recover | travel times measured by the kernel | every served chain arrives, a diversion pays, a routed vehicle is not taken off its route |
| Keyframes and warm start (`keyframe.go`, `warmstart.go`) | versioned bytes of an engine; a state file and its sidecar | marshal, restore, save, load | recorder, player, `serve` | a restored engine goes on exactly, and only in the run it is of |
| Metrics (`metrics.go`) | last sample per vehicle, interval sums, totals | observe a tick, close an interval, finalize | samples the kernel after a tick | what is not exact is loud |
| Record plane (`natsio/recorder.go`, `registry.go`) | predicted stream sequence, batch in flight | log a tick, await, keyframe, finish | JetStream | no hole in a record that replays |
| Replay, audit and bake (`natsio/replay.go`, `replay.go`, `natsio/bake.go`) | an index of the log | find a keyframe, re-simulate, verify | the log | reproduces the run or refuses |
| Player (`natsio/player.go`, `logcursor.go`) | playhead, cursor, paused, done | step, pause, resume, seek | the log, HTTP clients | the playhead is at what it shows |
| `serve` (`cmd/serve/main.go`) | flags, attach barrier, artifacts | check, attach, open the gate, interrupt, finish | run loop, embedded clients | never a degraded run, whole artifacts only |
| Supervisor (`cmd/demosrv/supervisor.go`) | the active child, a mutex, stop epoch and pending count, closed latch | start, startIfIdle, stop, shutdownFinal, reaper | child processes, ports, the run registry | one engine at a time, stops win |

What is hard to test here, with its line in the source, is the list `hazards` in PROJECT.json;
each names the properties that would catch it, or says why none does.

## The modules

| Module | What it is | Extends |
|---|---|---|
| `SignalProgram` | the compiled fixed-time programs as pure operators: `Phases`, `Cycle`, `PhaseAtElapsed` | |
| `SignalOverride` | the override plane as a state machine over the programs; the display and clearance operators of `signal.go` | `SignalProgram` |
| `SignalAgent` | the actuated signal controller against the override plane | `SignalOverride` |
| `ClaimLease` | abstract: exclusive leases of vehicles by controllers | |
| `Contract` | the contract and the run loop around it; implements `ClaimLease` | instance of `ClaimLease` |
| `Driver` | driver replicas against the claims, the drain and the arbitration | |
| `DemandQueue` | arrivals from a director's program over the wire and the contract to the road | |
| `RouteTable` | one destination's route table from epoch to epoch: search, memo, splices | |
| `RouteFollowing` | the depth search, and one routed vehicle while its tables change under it | `RouteTable` |
| `Junction` | the kernel's tick on a network of lanes and junction boxes | |
| `Metrics` | the metric kernel over small traffic with the kernel's boundary sweep | |
| `Keyframe` | an engine, its twin restored at any tick, the version and the parts of a payload | |
| `WarmStart` | saving and loading a pair of files, with a writer that may die | `Keyframe` |
| `Replay` | what a log is good for: keyframes, audit, bake, as operators | |
| `RecordPlane` | the recorder, the stream and what can go wrong between them | `Replay` |
| `Player` | the player over the record `RecordPlane` wrote | `RecordPlane` |
| `Serve` | the process of a live run, killed and started again | |
| `Supervisor` | starts, stops, children and reapers, one process each | |
| `MCSignalOverride`, `MCContract`, `MCSupervisor`, `MCJunction`, `MCRouting` | instances of one module | |
| `MCAgents`, `MCRecords`, `MCProcesses`, `MCRoads`, `MCLive` | instances of several modules that share no state: a behaviour is a behaviour of one of them, the others at an initial state | |
| `Signal_proofs`, `Contract_proofs`, `DemandQueue_proofs`, `Routing_proofs`, `Junction_proofs`, `WarmStart_proofs`, `Player_proofs`, `Processes_proofs` | theorems and lemmas about the modules they extend (`Signal_proofs`: `SignalOverride`, then `SignalAgent` over it; `Routing_proofs`: `RouteFollowing` and the `RouteTable` below it; `WarmStart_proofs`: `Keyframe`, then `WarmStart` over it; `Player_proofs`: `Player` and the `RecordPlane` below it; `Processes_proofs`: `Supervisor` and `Serve`) | |

The composed modules are those whose interaction is the point: agent and override plane, player
and record, warm start and keyframe, vehicle and route tables.  The others meet only through an
interface that each side models by what it may see: `Driver` has the part of the contract it
races with, `DemandQueue` the verb handler, `Serve` the start gate.

### SignalOverride

`sigOv[p]` is the history `e.sigOv[p.ID]` as a set of records (their intervals never overlap, so
the order of the slice is the order of `since`); `sigNew` is the buffer of accepted verbs, in
order, because order decides who supersedes whom; `appliedSig` and `sigLapses` are what the step
reports.  One tick is `EnqueueSignal`* , `BeginStep`, `Install`*, `Sweep`, `Drive`: the steps of
`Engine.Step` that touch signals, in their order. `Install` takes one buffered verb, the oldest,
and is repeated until the buffer is empty; `Recorded` keeps what is logged, and the hold of a
verb that governed no tick is rewritten to 0, as `markSignalVerbUnenforced` does. `shown`,
`heldFor` and `ovBefore` are history variables: the last displays, for how long the display has
been held, and the table before the step, which a replay starts from. Ids are model values, of
which only equality matters; times are ticks.

### SignalAgent

`ps` is the `progState` of the one controlled program, `table` the accumulator of the chunked
signal table and the programs installed.  `PublishTable`, `OnSigTable` and `LoseChunk` are the
two subscriptions a table may come in on; the run may step only once the table is whole, which
is the start gate.  `OnSnapshot` is `onSnapshot` with `decideProgram` (renew, switch, walk, gap
out) under counts that are whatever the traffic makes them; `Deliver` hands a verb to
`SignalOverride`.  `late` counts the boundaries that passed a snapshot or a verb by: the
controller claims to be exact only while there is none (`MaxLate = 0` in the run), and only as
the sole commander (`HoldRequests = {}`).

### Contract

A request is handled where it arrives: the wire callbacks only append to a buffer that
`ProcessControl` drains, and any client may send anything at any time, so the buffer adds no
behaviour.  `HandleHello`, `HandleClaim`, `HandleRelease`, `HandleHeartbeat` are the handlers,
`LivenessSweep` and `ResumeCheck` the rest of `ProcessControl`, `DrainIntents`, `Step` and
`AfterStep` the rest of an iteration; `pc` is the place in it.  A paused loop goes from
`ResumeCheck` back to `control` with the tick frozen.  An intent is its sender and its vehicle;
what persists of a command is in `Driver`.  The wall clock appears once, as `Dwell`: the time
after which the gate gives way has passed.  `heard`, `drove` and `told` are history variables
for the properties.

`ClaimLease` says what claims promise a client: a vehicle has one owner, it passes from one
owner to another only through being free, and who has left owns nothing.  `Contract` implements
it under `owner <- byVehicle, attached <- DOMAIN ctrls, retired <-` the ids handed out and no
longer attached.

### Driver

A replica's state is `fleet`, `asked` (claims in flight, per subscription that may ask),
`routed`, `wantRoute` and `wantLane`; snapshots, replies and observations are handled in any
order, as each subscription has its own goroutine.  `Discover`, `OnClaimReply`, `ClaimTimesOut`,
`OnObs`, `Attach`, `HelloTimesOut`, `Close` and `Kill` are the replica's; `HandleClaim`,
`HandleDetach`, `Silent` and `LoseIntent` the engine's and the wire's; `Boundary` is a drain
with first-intent-wins and the hold-last bridge, then a vehicle moves. Draws of a destination
are a constant per vehicle and attempt (`Draws`).

### DemandQueue

A director is its position in the program (`pos`), and what it sent and nobody has handled
(`wire`): verbs arrive in order, any may be lost.  `Send` is one verb of `onSnapshot`: the
position advances whatever becomes of the send.  A dead director is one that sends no more, so
`Attach` of the second is a restart or an overlap, whichever interleaving is taken; a restart
walks the program again under the same request ids.  `HandleVerb` is `Contract.handleVerb` with
`EnqueueSpawn`: an id is answered once and the answer is repeated, a sender that is not attached
is answered without being remembered.  `BeginStep`, then `Kept`, `Expire` or `Inject` per
directive, then `EndStep` are `stepDirectorSpawns`.  A clear origin, and vehicles leaving the
road, are nondeterministic.  `clean` is a history variable: the directors that lost nothing.

### RouteTable

A table is a function whose domain is the lanes that have a hop; the code's -1 is "not in the
domain".  `Pop` takes one lane off the heap of `routeDijkstra`, in the heap's order (distance,
then lane index); `FreshReady` and `StaticReady` are the ends of the two searches of
`rerouteTable`, the second of which happens once per destination (`staticTabs`); `Splice` and
`Keep` judge one lane each, in lane order; `Serve` hands the table out and `NewEpoch` is the
first query after a rollover.  The code walks at most one hop per lane to see whether a chain
ends; `RoadAhead` says the same with closed sets, which needs no recursion and can be reasoned
about in a proof.  Travel times are integers (milliseconds, say): only their sums and
comparisons matter.  Networks and frozen times are constants: whatever traffic was, an epoch
freezes some positive time per lane.

### RouteFollowing

`RouteTable`, the layered search of `routeLatDepth`, and one vehicle that drives while epochs
put other tables under it.  `Drive` closes a layer under predecessors, `Side` sows the next one
from neighbours, `NextLayer` turns the page; lanes of a layer are expanded in any order, as the
result must not depend on it.  The vehicle moves as `pickSuccessor` (`Cross`, `HeldTurn`),
`routeHopOK` (`Hop`), `tryRouteRecovery` (`Recover`) and the route's end (`Leave`) allow.  A
table is rebuilt within the lookup that finds it stale, so the vehicle moves by served tables
only.  Traffic is the nondeterminism of when it moves, and whether it may.

### Junction

One tick is one action: `Spawned` (the per-origin spawner with its entry gap and injection
plan), the decision of every vehicle from one snapshot (`SigGate`, `RowGate` with `RoadGate`,
`SeamGate` and `JunctionHold`), the motion with the lane boundaries (`Moved`), and the escape
(`Jammed`, `Excused`, `Stranded`).  `MergeThreat`, `ExitWalk`, `BoxWalk`, `FoeApproachBlocks`
are the walks of `rightofway.go`.  Positions are slots of one vehicle length and a vehicle moves
one slot or none; "cannot stop before the line" and "stopped at the line" keep their meaning in
these units (see the module's head), and a move of a slot restarts the stuck timer, as it takes
the kernel many ticks above `stuckSpeed`.  A vehicle that may move does (`FreeTick`), or dawdles, at
most `MaxDawdles` times (`DawdleTick`), which stands for every reason a driver has to be slower.

### Metrics

The kernel is an observer, so the module has its own small traffic: `Move` is the boundary sweep
of `engine.go` over lanes in descending index, with turns that the vehicle's route, or chance,
picks, and a hop beside.  `Observe` is `Kernel.Observe`: `Booked` and `SplitTick` split a tick over
the chain of lanes from the last sample to this one (`FindChains`), `ExitShares` books a vehicle
that left, `Due` closes intervals, `Finalize` ends the run.  `driven` is a history variable: the
distance really driven.  Distance stands for everything that is booked along the same shares
(time, occupancy, time loss).  Two limits: a lane that succeeds itself, whose wrap `Kernel.Observe`
books apart (499-507), is left out, as the network has no ring; and the total of
`IntervalsAddUp` counts on boxes having one successor (as the import makes them), because what
`Finalize` takes back past a lane's end right after an interval has closed is only given to a
sole successor.

### Keyframe and WarmStart

An engine is a record with one state of every kind that decides what vehicles do: spawner
schedule, queued directives, a commanded hold and its clearance, stop duties, stuck timers,
routes, measured times, the frozen snapshot and the cache of tables.  `Step` is a tick of it;
`live` is the run, `twin` an engine restored from its bytes at any tick, and both take every
later input.  `Version` and `Parts` are the writer's choice of the format, `Expected` and
`LaneSection` the reader's.  `WarmStart` adds the two files on disk: `SaveBytes` and
`SaveSidecar` replace them one after the other, `NextRun` is the death of a run anywhere,
`ReadBytes` and `ReadSidecar` a load that another writer may come between; `Guarded` are the
guards of `LoadState`.

### Replay, RecordPlane, Player

A log is a sequence of messages; an engine at a tick is the inputs of every tick so far, as the
kernel is deterministic.  `Replay` has the pure parts: `FindKeyframe` among torn chunk groups,
`Resimulated` and `Verified`, `Bake`, and the audit `Replayed`.  `RecordPlane` is the recorder
and what is between it and the stream: `LogStart` and `Tick` publish with predicted sequences,
`AwaitBatch` and `AwaitFails` are the wait, `Store`, `LoseWrite` and `Compete` the stream,
`Crash` takes what was not sent.  The stream's deduplication by `Nats-Msg-Id`
(`recorder.go:271`) is left out: the ids of one recorder are all different, so it makes a
difference only to a second recorder of the same run.  `Player` opens what is left and serves
requests, one HTTP client at a time: `ServePause`, `ServeResume`, `ServeSeek`, `SeekFails`,
`SeekLands`; `BeginTick`, `Fetch`, `ReadFault`, `Gather` and `StepTick` are a tick with its
cursor. `HeldBack` is the cursor's one message of lookahead.

### Serve

`main` is the main goroutine's place, `loop` the run goroutine's, `client` the attach
goroutines'; `recording`, `registry` and `metrics` outlive the process, which may be killed
anywhere (`Killed`) and launched again with the same command line.  `Launch` checks flags and
store, `RunDied`, `BarrierTimeOut`, `OpenGate` are `waitBarrier`; `Build` to `Finish`,
`WriteMetrics`, `RenameMetrics` are the run.

### Supervisor

Every call is a process with a program counter.  A step is one access to what another goroutine
may touch without the mutex: `closed`, `stopEpoch`, `stopPending`, the `done` channel and the
ports are read in the order of the code, one at a time.  The child goes from up to listening to
ready, and may die anywhere; its reaper closes `done`, then takes the mutex.  `Stray` is a
foreign process on the fixed ports: the child cannot bind, and a dial is accepted although the
child is dead.  A demo's second probe asks for a run id that only its own child can register; a
recording's only dials a port and compares a recording hash, which a second server of the same
recording passes.  `landed[o]` remembers the stops that start `o` has to give way to.

## What the runs check

| Run | Shows | Bounds |
|---|---|---|
| `signal_override` | lapses reported, chains uninterrupted, look-back answered, clearance follows the display, replay of the record reproduces | one program of two phases, one link, clearance 2, hold bound 3, 5 ticks, at most 2 verbs per boundary |
| `signal_starvation` (violated) | a phase can stay displayed past the bound `sigctl.go:28-34` promises | as above, 6 ticks, default holds |
| `contract` | only owners command, bridge, announced once, swept only if silent, implements `ClaimLease` | 2 vehicles, 2 attachments of any kind, 2 intents per drain, 7 ticks, silence budget 3 |
| `agents` | driver replicas: routed is true, one destination; signal agent: prediction exact, walks in order; directors: no arrival doubled or dropped, a restart makes the program good | 2 replicas for 1 vehicle or 1 for 2, 4 lanes, 4 drains, 1 fault; 4 phases, 18 ticks, 2 publications of a table of 2 chunks; a flow of 2 arrivals and one of an unknown origin, 2 directors, room for 1 vehicle, 5 ticks |
| `roads` | no conflicting boxes, nobody in one place, minimal escape, everybody leaves; searches exact, every chain arrives, depths lead home, a vehicle stays on its route | nine networks of up to 18 lanes, up to 4 vehicles, 2 dawdles, injection intervals 1 and 2; four route networks of six lanes, every destination, two tables after one another |
| `amber_turn` (violated) | two vehicles in crossing boxes at the end of a permissive green | one network, no dawdle |
| `long_red` (violated) | the escape takes a vehicle that waits at its own red, unlike `gridlock.go:166-171` | one crossing with a red of 17 ticks, no dawdle |
| `route_margin` (violated) | a served diversion can cost more than its margin allows, unlike `routing.go:282-283` | one network of 9 lanes, one freeze of times |
| `records` | acknowledged is recorded, audit and bake reproduce or refuse, playback is the run, done holds at the end; metrics exact or loud, intervals tile | 3 ticks, a keyframe of 2 chunks every other tick, one loss, one foreign write, a crash anywhere, 2 requests, 1 read fault; 4 ticks of traffic of 2 vehicles on 6 lanes, two measurement sets |
| `failed_seek` (violated) | a player steps a tick without its inputs after a seek that failed | as above, 1 request |
| `processes` | one engine, stops win, failures leave nothing; no tick unattended, one run per recording, flags honoured; restore exact, loaded was saved | 3 starts (demo, recording, autostart), a stop and a final shutdown; 2 serves of 2 ticks; 8 ticks of an engine with 3 vehicles, 2 runs with 2 saves |
| `live` | the run gets all its ticks without any help from clients; every stop returns | the clients of `contract` without intents, which the gate does not read, 4 ticks; 2 starts, 2 stops |

Why the bounds are enough.  A hold interacts with the entries it touches and with the boundary
at which it ends; bound 3 and clearance 2 let a chain be renewed, clamped, superseded twice in
one boundary and swept within 5 ticks.  Two vehicles and two controllers are the least that let
a vehicle change hands while another is bridged.  With a silence budget of 3 a vehicle that was
injected, claimed and left in silence is swept from its owner at tick 5, and 7 ticks let another
controller claim it, drive it and be bridged; the sweep never meets a bridge here, because the
hold window is shorter than the budget.  The gate of `live` needs no sweep: it closes, gives way
and closes again within 4 ticks.  Two replicas race for one vehicle, fail over and come back
within 4 drains.  The 18 ticks of the agent are more than a cycle of the program and long enough
for a walk, a renewal and the starvation bound of 8. Each network of `roads` is the least one
with its hard case (see `MCJunction`), with one vehicle more than the case needs, so that
someone always follows; the liveness property needs no fairness of a vehicle, only that ticks go
on.  In none of them is a foe in the box before a red that has lasted `StrandAfter`, the case
`long_red` is about: there `MinimalEscape` fails too. Six lanes hold two loops a splice could
close, a lane that cannot reach the destination, and a lane with three ways on.  Three recorded
ticks with a keyframe every other one have a keyframe before, at and behind a seek's target, and
a torn one at the tail.  Six lanes with a box of the highest index have every split: one lane,
two, a chain through the box, a sample past a lane's end, an exit within the tick.  Eight ticks
of an engine with epochs of 7 and a decay of 3 cross an epoch with a measurement and a decay
before it.  Three starts and two stops have every pair of calls overlap with the reaper of a
third.  The garden of `records` is so far from its lane's end that a first tick stays in the
lane; the other case is `MCCorner`, with which `LoudOrExact` fails.  Every bound is a constant
named in its module; symmetry is over the request ids of `signal_override` and the vehicles of
`contract`, which are merely compared, and in no run with a liveness property.

`CHECK_DEADLOCK FALSE` is set where the system does stop: in `agents`, `records`, `failed_seek`
and `processes` every process ends at its bound, exits or is killed; in `roads` a vehicle on a
lane that ends at a wall stays there, which is what the kernel does with it.

Each property also has a variant of its module in which one definition is replaced by a faulty
one and in which it fails.  The faulty operators sit next to the ones they replace
(`UnmergedOnset` next to `SigDisplayedOnset`, `GoneUnconfirmed` next to `Gone`, `JudgedOnPaper`
next to `Accepted`, `FireAndForget` next to `Confirmed`, `SplitKeepsOvershoot` next to
`SplitTick`) and no action uses them; they show that the property can fail.

## Fairness

`Contract!FairSpec` is weak fairness of the run loop as a whole and of the wall clock.  The loop
is one goroutine that never waits for a client.  No fairness is asked of clients: they may never
release, claim or heartbeat again, and `RunEnds` still holds (`live` checks it as
`RunGetsItsTicks`).  `Supervisor!FairSpec` is weak fairness of the steps goroutines take by
themselves, of the reaper's close and of the kill timer, and strong fairness of taking the mutex
(a Go mutex hands over to a starving waiter). Nothing is asked of children, ports or deadlines,
so that a stop returns because of the epoch and not because a wait runs out (`StopsReturn`, in
`live` as `EveryStopReturns`).  `Junction!KernelSpec` asks only that ticks go on (`WF` of the
clock): the loop of the kernel steps until its horizon.  `LiveSpec` binds the fairness of the
run loop to the behaviours that are its own, and asks the supervisor's of calls that have begun,
so that neither part is asked for steps in a behaviour of the other; a behaviour of `RoadsSpec`
that is one of the routes is never fair to the kernel's clock, and `EveryoneLeaves` says nothing
of it.

## What is proved

Every theorem below holds for all values of the constants that satisfy the assumptions named
with it.  Each invariant was first checked by TLC on the instance of the component's run.

`Signal_proofs`, its first part, for all programs, phase tables, offsets, clearances, bounds and
verbs, from the assumptions `ProgramAssumption` and the one on the bounds:

* `TypeCorrect`: the type invariant.
* `HistoriesStayWellFormed`: holds in a history never overlap or reach past what the bound
  allows.  The inductive invariant adds to it that a tick is between steps or positive, that the
  table answers for the ticks inside the window (the tick just driven included, once it is
  driven), and that no fallback is silent.  `InstalledOK` shows that one verb keeps a history
  well formed: the newest entry is the only one a verb can touch (`NewestExists`), and
  truncating or dropping it leaves the others apart (`SupersedeOK`).
* `LookbackIsAnswered`: look-back holds for the ticks already displayed because a step neither
  changes (`InstalledKeepsThePast`) nor sweeps (`SweptKeepsTheWindow`) an interval that still
  reaches into the window.
* `FallbackIsNeverSilent`: a display that was held and is not any more was held by the newest
  entry, which ended exactly now (`HandBack`).
* `ChainsAreUninterrupted`: needs a second invariant, `Chains`.  The property speaks of the tick
  that is being driven; `Chains` says of any moment that the phase of the newest entry was shown
  at every tick since its chain began, up to the tick before, also of an entry that has ended,
  because a verb at exactly that boundary continues the chain.

* `RecordsReplay`: a replay is not the run again, because a verb that a later one of its tick
  dropped stands on the record with hold 0 and asks for the default hold.  The third invariant,
  `Replayable`, says within a tick that the replay of the verbs so far is where the run is.
  When a verb drops an entry, the replay of the new record goes astray at the verb of that
  entry, by the end of one entry and the hold on the record (`Astray`), and no verb for another
  program makes that better or worse (`OthersKeepAstray`); the verb that drops the entry drops
  it there too (`DroppedAlike`).  This needs that the ids under way are all different (`Fresh`)
  and that the verb of the dropped entry was the last for its program (`LastVerb`).  A declined
  verb is declined again whatever it asks for (`AgainSame`).
* `ClearanceIsDisplayed`: no further invariant is needed, since a well-formed history that
  answers for the window decides it.  `SpanFacts` says what a span of `sigSpanOnset` is: one phase
  from its onset on, no change of the schedule inside, and one at its onset exactly when no
  override begins or ends there.  It rests on `FixedBack`, that `phaseAtElapsed` counts the age
  of a phase tick by tick, which is arithmetic modulo the cycle.  The walk of
  `sigDisplayedOnset` then extends an interval of red to the past (`RedExtends`), and wherever it
  stops, at another light, at a change of the schedule, at the first tick or at the end of the
  window, its answer is the displayed one (`EndsHere`, `EndsOutside`, `WalkAnswers`).

`Signal_proofs`, its second part, for all programs, traffic, table chunkings and knobs, from the
assumptions of `SignalOverride` and `AgentAssumption` (a hold outlasts the cadence and the
renewal margin, the links are finitely many):

* `PredictionsAreExact`: the controller hears nothing back.  While no boundary passed anything
  by, one thing is under way at a time (`OneAtATime`): a snapshot, a verb or its directive. What
  the controller believes is then the newest entry of the history, cut at the starvation bound
  (`Told`), or what the directive will install at its boundary (`Pending`). `ProgramDecided`
  goes through the whole decision: whatever it sends is a sound belief and safe to send.
  `SentIsPending` shows that controller and kernel agree on whether a verb continues a chain and
  where its hold ends.  Each step of the kernel is one of `KernelNext`, so the invariants of the
  first part hold here too.
* `WalksGoInOrder`: a command that changes the phase while a hold is on takes the next phase of
  the table, and ends a transition no earlier than planned; how long that transition was shown
  is what `Chains` says of it (`CommandSteps`).

`Contract_proofs`, for all vehicles, requests and budgets, from `ContractAssumption`:

* `ContractTypes`, `RegistryStaysConsistent`: the claims of a controller are the vehicles
  registered to it, owners are attached, and hold records speak for the present owner. Types and
  consistency are inductive only together: a release trusts the registry, a detach and a sweep
  trust the claim set, and either would break the other's view if they disagreed.
* `OnlyOwnersCommandVehicles`: follows from consistency of hold records, at the drain.
* `ClaimsAreLeases`: the step simulation of `ClaimLease`; each handler maps to a take, a yield,
  a leave or a stutter.
* `DrivenVehiclesStayBridged`, `SpellsAreAnnouncedOnce`, `SweepsOnlyTheSilent`: a second
  invariant, `Books`, ties the contract's books to what happened.  A vehicle driven lately has a
  hold record of exactly that tick whoever owns it now, and whoever does has a cadence of at
  least 1, so the bridge lasts at least `HoldLast` (`Covered`); a vehicle is marked as announced
  exactly if this spell was published (`Tally`); the registry's clock of a controller is the
  last time it was heard, whichever handler heard it (`HeardAsSeen`).

`DemandQueue_proofs`, for all arrival programs, directors, leads, hold windows and density caps,
from `ArrivalsAssumption` and `NumbersAssumption`:

* `DemandIsAccountedFor`: the promise counts an arrival in three queues and two counters.  The
  first lemmas say what appending, taking the head and concatenating do to such a count
  (`TimesAppend`, `TimesTail`, `TimesConcat`); with them every handler moves one arrival from
  one place to the next.  Outside a step nothing is left to try (`Tried`), or the queue that the
  next step begins with would lose an arrival.
* `RestartsMakeGood`: a retried verb gets the first answer, which is what the idempotency key is
  for, so a rejection earned by a predecessor would stick.  The invariant adds that the contract
  turned down only what the kernel would have refused whoever sent it (`RefusedForGood`), and
  that a director it never swept is one it knows (`Attached`).

`Player_proofs`, for all lengths of a run, inputs, keyframe cadences and chunkings, losses,
foreign writes, requests and faults, from the assumptions of `RecordPlane` and `Player`
(`InputsAssumption` says that a list of inputs is a sequence):

* `RecordingsHaveNoHoles`: the recorder predicts sequences and the stream assigns them, in
  another process.  The invariant says which messages are under way and under which numbers
  (`InFlight`), that a write acknowledged at its predicted sequence is in the log there
  (`Answered`), and that the log agrees with what was said up to the recorder's cursor
  (`Agreed`); so a batch acknowledged as a whole moves the cursor over no hole.
* `DoneIsAtTheEnd`: a tick is begun only below the horizon, and no seek goes past it
  (`Reading`); the keyframe a player starts from is not past it either (`KeyframeFound`,
  `HorizonIsATick`).

`Routing_proofs`, for all networks, positive travel times, destinations, margins and mutual
lateral links, from `LanesAssumption`, `NetsAssumption`, `MarginAssumption` and
`BesideAssumption`:

* `RouteTypes`: the type invariant.
* `ServedTablesArrive`: the code claims that "acyclicity is constructed".  The inductive
  invariant says where a search stands (what is finished arrives, what is known has its hop
  among the finished, all predecessors of the finished are known) and what the tables of
  finished searches cover.  `SettledChains`: later pops leave finished chains alone.
  `SearchEnds`: a search with an empty frontier has finished exactly the lanes that can reach
  the destination.  `SpliceKeepsArrivals`: when the chain from the spliced lane arrives in the
  mixed table with its candidate in, every other chain that arrived still does.  No step needs
  the travel times: arrival does not depend on the search being a shortest-path search, nor on
  the margin.
* `SearchesAreExact` does need them.  `ExactInv` is the invariant of Dijkstra's algorithm, said
  without paths: each hop accounts for its lane's distance, no finished successor would be
  nearer, and nothing on the frontier is nearer than anything finished.
* `GradientsLeadHome`: the depth search expands in layers, and what it still has to expand is
  the only place where a lane may have an unseen predecessor or neighbour (`Expanded`).  The way
  home from a lane is the least closed set around it; `AheadStays` shows that finding more lanes
  never takes a way away, `AheadBefore` that a lane inherits the way of the lane it drives into.
* `VehiclesStayOnRoute`: the two searches and the guardrail together.  A crossing stays on the
  route because a lane whose chain arrives has a successor whose chain arrives
  (`HopsStayOnRoute`), a recovery hop cannot skip a layer because lateral links are mutual
  (`RecoverKeepsRoute`).

`Junction_proofs`, for all networks, demands, injection plans, dawdling and numbers of vehicles,
from `JunctionAssumption` (a network is well formed and a foe of a foe list is a foe in return,
which is how the importer writes both lists):

* `TypeCorrect`: the shapes of the kernel's tables, and that nobody is past the end of its lane,
  which the motion and the sweep over the boundaries establish together.
* `NobodyLandsOnAnybody`, on networks whose lanes merge only where they leave junctions
  (`MergesInJunctions`).  No two vehicles of one lane share a slot (`Apart`) is inductive: the
  foremost of a lane is the only one that can leave it (`FrontIsForemost`), the merge threat
  holds back all but one of those that head for a shared exit (`SiblingThreatens`,
  `CrossesUnthreatened`), and a spawner enters only into its gap (`PlanLeavesRoom`).
* `FoesNeverMeet`, on networks where moreover, at any tick of the cycle, of two foes that the
  lights may both let in one has a duty to yield (`Arbitrated`).  A light lets in also those
  that cannot stop any more, so the invariant has to speak of vehicles that are not in a box
  yet: who rolls at the line of a light came to it under a light that did not hold it
  (`Committed`).  Then two foes enter in one tick only if one had to yield
  (`EntersWhileEnterable`), and whoever has to yield sees the other at its line
  (`YieldersStayApart`); a foe that is inside already is seen by the walk over the box.

The two hypotheses are facts about a map which the code relies on and does not enforce; TLC
evaluates them on all nine junction networks of `roads` (an `ASSUME` of `MCJunction`).  The
network of `amber_turn` violates `Arbitrated`, in the one tick of amber after a permissive
green, and there `SafeBox` is violated.  The walks (`ExitWalk`, `EntryGap`, `BoxWalk`, the loop
over the vehicles that strands them) are recursive functions of a bounded number of hops:
`WalkExists` shows that the function exists, so that its definition may be used, and
`KeptByWalk` that what every step keeps holds at the end.

`WarmStart_proofs`, for all free-flow times, decays, epochs, margins and bounds, from
`KeyframeAssumption`:

* `KeyframesAreExact` and `SavingRunsAreExact`: a simulation.  Two engines are `Alike` if they
  agree on all that is saved; they may differ in their route table, and in a run without
  adaptive routing in the dwell clocks.  What makes the first difference harmless is `Coherent`:
  a table of the present epoch has the hop that would be computed from the frozen times now,
  because the times are frozen only at a rollover, which makes every table stale. `MoveOneAlike`
  takes each outcome of a vehicle's motion; a tick is a walk over the vehicles (`StepMoves`),
  which keeps `Alike`.  `VersionFacts` says what an engine whose state fits a low version does
  not have, so that leaving it out of the payload loses nothing (`RestoredSame`).
* `LoadsWereSaved`: the guards of a load compare a sidecar with a file that another writer may
  have replaced.  The invariant is that each sidecar, on the disk or in a reader's hand, was
  made for an engine that was saved (`SidecarsSaved`); equal tick and digest then mean the same
  state (`EssenceSame`), whoever wrote the file.

`Processes_proofs`, for all horizons, command lines and numbers of processes, from
`ServeAssumption`:

* `TicksAreAttended`, `RecordingsAreOneRun`, `FlagsStayHonoured`: one invariant that follows
  each promise to where it is made: the barrier lets a client go only when it is attached
  (`Attended`), the store is found empty before the goroutine of the run exists (`OneLog`), and
  flags that were let through leave `RunLive` nothing to refuse (`NothingToRefuse`).

`Processes_proofs`, for all finite sets of starts and stops, from `SupervisorAssumption`:

* `SupervisorTypes`, `OneEngineRuns`, `FailedStartsLeaveNothing`: the invariant locates every
  living engine (`Located`): it is the active one, or the holder of the mutex is about to
  activate it or waits for its death; and whoever holds the mutex is at a label inside it.
* `StopsAlwaysWin`: a second invariant, `Overtaken`, follows a stop that a start has to give way
  to.  As long as the start is between its guards and its answer, the stop waits for the mutex,
  marked, so that the pending count is positive when the start looks at it; before that it does,
  or it has raised the epoch the start will compare with its own.

The theorems about `TypeOK`, `HistoryWellFormed` and `RegistryConsistent` are the parts the
others rest on; the runs check the deeper properties those serve.

Only model-checked:

* The liveness properties: fairness and `ENABLED` are outside the prover's reach.
* What a fold, a filter or a sum over data of any size computes: the operators of the library
  are recursive over operators, which the prover cannot unfold. These are `AuditReproduces` and
  `PlaybackIsTheRun` (a record is filtered and folded into an engine), `RoutedIsTrue` and
  `OneDestination` (a route is a fold over its steps), `LoudOrExact` and `IntervalsAddUp` (sums
  over sets of samples).
* `MinimalEscape`: how many vehicles a jam costs is a number stated per network, so that there
  is nothing to prove for all of them.

## What the code does and a text does not say

Shown by a run (`findings` in PROJECT.json):

* The starvation bound is per chain, and two verbs in one boundary (another phase, then the held
  one) start a new chain without the display ever changing (`signal_starvation`).
* The margin of a diversion is judged once, against the table of that moment: a lane that is
  spliced later, and gains by it, can lengthen the chain of a lane spliced before, which is then
  served although it does not beat its static chain by the margin (`route_margin`).
* A seek that fails in its re-simulation leaves the player at an intermediate tick, behind the
  cursor; the next play steps a tick without its recorded inputs (`failed_seek`).
* At the onset of amber after a permissive green neither of two crossing vehicles that cannot
  stop yields (`amber_turn`).
* The comment of the escape (`gridlock.go:166-171`) says that a red light never leads to it.  A
  vehicle that waits at its own red is stranded when its timer is up in a tick in which crossing
  traffic is in the box in front of it, because `boxWalk` (`rightofway.go:277-286`)
  reports a foe in the box whatever the light shows (`long_red`).

Met while modelling, in the source or in a model that no run spends its time on:

* A recording's readiness is declared over a child that died during the last dial, when
  something else answers on the port: `NeverReadyOverCorpse` of `Supervisor` fails with `Stray =
  TRUE` (`supervisor.go:587`).
* Claims at attach are granted without the drive grant that `contract.go:694` asks of later ones
  (`contract.go:638`): `OwnersDrive` of `Contract` fails at once.
* A refund of time loss may make an interval's sum negative (`metrics.go`, `addTimeLossRaw`).
* A vehicle injected in the interior of a lane, so near its end that its first tick leads out of
  it, is booked short without a dropped crossing (`metrics.go:465-496`), against "never silent"
  at 177-179 and "makes it loud" at 455: `LoudOrExact` of `Metrics` fails with `Gardens <-
  MCCorner`.
* `SaveState` says an interrupted save leaves "either nothing or a state with no sidecar"; over
  an older pair it leaves the new state with the old sidecar, which `LoadState` refuses by tick
  and digest.
* The player's horizon reads the last tick of the log, so it may include a tail of a tick whose
  messages are not all there (`player.go:239`); what is shown there is outside
  `PlaybackIsTheRun`.
* `natsio/run.go:290` passes the log's last sequence as the "stream sequence of the latest
  keyframe" of `natsio/registry.go:48`.
* A slice of rate zero that contains the next arrival's time ends the flow, although a later
  slice has a rate (`natsio/demand/director.go:429-444` jumps to "the next slice window", which
  is that very slice). The comment at 415-416 counts "a zero rate with slices" as the end of the
  program; `scenario/scenario.go:106-107` calls the rate piecewise constant.
* Between two failovers, an intent of a publisher that is not attached may change a destination
  that the attached holders agree on; `Driver` has attached replicas only.
* `serve -sigctl` with `-state-in` is not refused; `-drivers 0` is refused
  (`cmd/serve/main.go:531`) only after the run goroutine was started; and `os.Exit` leaves the
  temporary store behind that 1192-1196 promise to remove.

## Not modelled, and the plan

Left out, with the reason: codecs and byte layouts (`tsib.go`, `tslb.go`, `obsframe.go`,
`sigframe.go`), imports and validation of networks and scenarios, the tiles a bake writes, the
map client, analysis and deployment: pure input and output.  Car following, lane-change
incentives, geometry and the sampler of demand are laws over floating point; where their outcome
matters it is a choice (may a vehicle move, is a hop safe, when is the next arrival).

What is left, most important first:

1. Signal verbs that are late or lost (`MaxLate > 0`) with a weaker promise of the agent, and
   two destinations of one run in `Driver`.
