# CamBridge: models, checks and proofs

CamBridge puts a studio's cameras, lights and motion rig behind one panel. This
directory holds TLA+ models of its concurrent core, the TLC instances that check
them, and proofs for the properties that matter most. Paths are relative to
`src/`; within cambridge, to `src/cambridge/src/`.

Contents: 1 the system · 2 the modules and the code · 3 the runs · 4 fairness ·
5 the proofs · 6 where code and comments disagree · 7 what is not modelled ·
8 what is left.

## 1. The system

### 1.1 Parts, their state and how they interact

| part | code | state it keeps | talks to |
| --- | --- | --- | --- |
| **camd** | `camd/src` (C++) | per Sony camera a worker thread: connection state, command deque, pinned SSH host key, last snapshot; a discovery thread; the WebSocket clients and their queues | the vendor's SDK (callbacks on SDK threads), cambridge (HTTP, one WebSocket) |
| **cambridge** | `cambridge/src` (Node) | the panel's copy of every camera, takes, alarms, PTZ heads, lighting, accounts | camd, heads (HTTP, VISCA), switcher, panels, phones |
| PTZ motion | `ptz/motion.js` | holds, last vector sent, unconfirmed stops, deadman | queue, driver |
| PTZ queue | `ptz/queue.js` | pending jobs, two lane flags, gap timer | driver |
| PTZ lifecycle | `ptz/lifecycle.js`, `ptz/source.js` | connection state, generation, timers, polls and writes in flight, the stop promised to the next connection | motion, queue, driver, state |
| VISCA client | `ptz/visca-client.js`, `ptz/drivers/sony-brc.js` | sequence numbers, the message awaiting its answer, the head's buffers, a stop to be sent again | the head (UDP, HTTP-CGI) |
| mirror | `state.js`, `camd-client.js`, part of `server.js` | snapshot per camera, takes, record intents, tally | camd's hub |
| control | `control.js`, part of `server.js` | undo history per camera, the flag that suspends it | lifecycle, camd |
| lighting | `lighting/*` | levels, fades, patch, saved state and scene, the sACN socket | lights |
| BLE gateway | `ble/gateway.js`, `blebridge` (Swift) | sessions, authentication tries, dedupe table; the bridge's outbox | phones |
| ATEM | `atem.js`, `atem-cc.js` | session, last packet, watchdog; gathered camera-control writes | switcher, camd |
| VISCA server | `visca.js` | controllers, a chain of messages each, routes remembered for moves | hardware controllers, lifecycle |
| SKAARHOJ | `skaarhoj/*` | link and its identification; layout, roles, selection, latched stick, what was drawn | the hardware panel |
| mobile rig | `mobile/motion` (Dart) | held pads, recalls, loops, a FIFO of commands, stop registry | the motion rig |
| surfaces | `public/`, `companion-module-cambridge`, `mobile/app` | views of the above | cambridge's API |

A PTZ move goes panel → `server.js` → `lifecycle.move()` → `MotionController.drive`
→ `CommandQueue` (motion lane) → driver → head. A velocity holds on the head
until something says stop: a move that loses its owner is a head that turns by
itself. A recording command goes panel → `server.js` → camd's HTTP thread →
`CameraWorker::runJob` → worker thread → SDK; what the camera does comes back
through the worker's snapshot, the hub's per-client queue and `state.js`.

### 1.2 What is hard

* **Interleaving.** In Node between any two awaits: a stop loop against a new
  drive, a connection attempt against a reconnect, a bind against new settings,
  an undo against another operator's write. In camd between threads: HTTP,
  worker, discovery and SDK threads meet over a mutex per concern and a few
  atomics. In the mobile app between the futures of one isolate.
* **Failure.** A head refuses, times out or vanishes while it moves; a link is
  dead without saying so; camd restarts while a camera records; a slow client
  is cut off; the lighting interface changes its address.
* **Ordering.** A greeting overtaken by an event, a stop behind a move, a
  retransmission behind its original, a tally packet behind a later one.
* **Time.** Deadman, heartbeat, back-off, the guard on a promise that never
  settles, a caller's deadline against the worker's progress, an authentication
  timer that outlives its session.

`PROJECT.json` lists these hazards with their lines and the properties that
would catch each.

### 1.3 What makes each part correct

* *Motion*: a head that moves is held or has a stop outstanding; a stop that is
  not sent was not needed.
* *Lifecycle*: that stays so over drops, reconnects and re-addressing; there is
  one way to the next connection; a stopped camera is silent; a head left alone
  comes to rest. A panel follows the settings of the body; the undo history leads
  back to what was there, and ends with the connection it was made over.
* *Queue*: motion waits only for motion, and every call is answered.
* *VISCA client*: what the head did last is what was asked last; a command runs
  once; its caller is told what happened, and always told.
* *camd's commands*: callers are told what happened; a stop outranks the starts
  before it; shutdown frees the callers.
* *camd's connection*: a session is only held with the pinned camera; a reachable
  camera is connected; the strongest claim to a body has it.
* *Mirror*: the panel ends up with what camd knows; one take is open exactly while
  a recording is shown.
* *Lighting*: each light is heading where it was last told and, while output is
  possible, gets there; there is never a second socket.
* *BLE*: a command sent twice is carried out once; a paired phone sees the live
  state; a revoked one gets nothing done; a good one is refused only for a cause.
* *VISCA server*: what a controller holds moving, its own stop reaches.
* *Switcher*: the tally shown becomes the tally on air; a wheel's last value lands.
* *SKAARHOJ*: what the stick holds it can stop; what is shown is current; the link
  is never given up; no control has two roles and every camera has a button.
* *Rig*: STOP ALL is final; a jog takes over only what was stopped first.

## 2. The modules and the code

| module | stands for | extends / uses |
| --- | --- | --- |
| `PtzMotion` | `motion.js`, the motion lane as it sees it, the head | |
| `PtzCamera` | `lifecycle.js`, `source.js` around it | extends `PtzMotion` |
| `PtzQueue` | `queue.js` by itself, with its timers | |
| `ViscaClient` | `visca-client.js`, the network and the head | |
| `SonyDriver` | how `sony-brc.js` moves and stops | extends `ViscaClient` |
| `UndoHistory` | the list operators of `control.js` | |
| `PtzSettings` | polls, property writes, recalls, undos, reverts | extends `UndoHistory` |
| `CommandOutcome` | what `runJob` promises (`registry.h:38-44`): the abstract specification | |
| `CamdJobs` | `runJob`, `drainJobs`, `stop` of `registry.cpp` | implements `CommandOutcome` |
| `CamdWorker` | the worker's connection states, pinning, offers | |
| `CamdDiscovery` | sweeps, matching, adding and removing entries | |
| `RecordMirror` | worker snapshot → hub → `state.js`, and the takes | |
| `SacnOutput` | `lighting/output.js`: the socket | |
| `Lighting` | `lighting/engine.js`, `lighting/service.js` | extends `SacnOutput` |
| `BleGateway` | `ble/gateway.js`, the bridge, the phone's session | |
| `AtemTally` | `atem.js` and what `server.js` does with the tally | |
| `WriteCoalescer` | the coalescer of `atem-cc.js` | |
| `ViscaServer` | `visca.js` as a server for controllers | |
| `RawPanel` | `skaarhoj/rawpanel.js`: the link | |
| `PanelController` | `skaarhoj/mapping.js` on it | extends `RawPanel` |
| `PanelRoles` | `detectRoles` and the layout of camera buttons | |
| `PanelEncoder` | an encoder's writes | |
| `Rig` | `mobile/motion`: rig controller, device, session | |
| `PtzHeadProofs` | theorems (section 5) about `PtzMotion`, `PtzCamera`, `PtzQueue` | extends them |
| `CamdProofs` | about `CamdJobs`, `CamdDiscovery`, `CamdWorker` | extends them |
| `SonyDriverProofs`, `ViscaServerProofs`, `LightingProofs`, `BleGatewayProofs`, `PtzSettingsProofs` | about the module of that name and what it extends | extend it |
| `MirrorPanelProofs` | about `RecordMirror` and `PanelController` on `RawPanel` | extends them |

`MC...` modules give constants their values and put parts that share no state
into one run. In `MCPtzHead` (camera and queue) and `MCCamd` (commands and
discovery) one part moves while the other is in its initial state; in `MCMirror`
(mirror, SKAARHOJ panel, roles) and `MCSwitcher` (tally, coalescer, encoder) a
variable `turn`, chosen at the start, says which part works in this behaviour and
the rest stand still. So a run visits the states of each part and not their
product. Standing still is allowed by the fairness of every part: in its initial
state nothing of it is bound to happen.

Definitions named `Mut...` are deliberate faults of the definition that follows
them: with the fault in its place, the property it is listed with in
`PROJECT.json` is violated, which shows that the property can fail. Variables
marked *history* do not exist in the code. Several properties make exceptions,
each with a name recorded in a history variable when it happens (`excused`,
`stale`, `slips`, `amiss`, `odd`, `missed`, `failed`): what such a property shows
is that there is no other way to lose what it protects.

**PtzMotion.** `held`, `armed`, `sent`, `unconfirmed` are the controller's
fields (`armed`: `timer` is set); a stop loop's identity object is a `Token`,
`loop` says which key the loop serves. `waiting`, `order` and `running` are the
motion lane: per key the one pending job (latest wins), their order, the job in
flight. `Drive` and `DriveZero` are `drive` and `#send`, `ReleaseSource` is
`releaseSource`, `Expire` and `Check` the deadman's clock and interval, `StopAll`
is `stopAll`; `MoveTaken`, `StopTaken` and `JobFails` are the code after the await
of a send; `StandDown` and `Retry` the head of a stop loop's next attempt. Groups,
not axes, are the unit, as in the code; a vector is one of `Speed` or zero.

**PtzCamera** adds `phase` (`start()`, `stop()`), where `#attempt` waits,
`reconnectTimer`, the tick, `movingAtDrop`, and `late`: the motion jobs of closed
queues that are still on the wire, which `queue.close()` neither recalls nor waits
for. An attempt that a newer `Connect` replaced (`gen`) ends in `StaleAttempt`.
Every motion step is PtzMotion's own.

**PtzQueue** has the queue's flags, the gap timer, the microtask that pumps and
per job the guard. A step is one run of JavaScript; `Tick` is a unit of time, which
passes only when nothing is due. The motion lane appears in PtzMotion too, reduced
to what motion sees; here are priorities, gap and guard.

**ViscaClient, SonyDriver.** One message at a time awaits its first reply;
retransmission with the same number, refusal of a number the head has seen, RESET,
the head's buffers, a late completion. The network loses and reorders datagrams.
The driver falls back to CGI for a stop and repeats it over VISCA when that
answers again. Calls, sequence numbers, faults and CGI operations are bounded.

**UndoHistory, PtzSettings.** Reads and writes are in flight between `Start...`,
`Reach` (the body acts) and `Settle` (the await ends); `ReachLate` is an answer of
a connection that is gone. The history is a list with marks; `suspended` is the
code's one flag for all cameras.

**CamdJobs** cuts `runJob` where another thread can interfere: the look at
`running_`, the push under `jobMu_` with the withdrawal of earlier starts, the
release of the withdrawn promises, the wait, the compare-and-swap after the
deadline. The worker's drain is `Check`, `Pop`, `Claim`, `Run`, `SignalDone`;
`StopBegins`, `StopDrains`, `StopReleases` are `stop()`. `ran` and `before` record
the order of commands.

**CamdWorker** has one action per `step...` function and per outside call
(`offerDiscovery`, `offerMissing`, `requestReconnect`, `repin`, the SDK's
callbacks). A camera is the host key it presents; it may be swapped for one with
another key, or with none, at any time. **CamdDiscovery** is the loop that makes
the offers: enumeration, snapshot of the entries, four passes (device id, MAC,
address, model), what the unmatched are told, and `addCamera`'s own offer from the
last enumeration.

**RecordMirror** follows one bit pair, connected and recording, from what camd reads
of the body to the panel; the body rolls and stops as it likes, so a status read may
say either. `conn` cuts the hub's `serve` where a broadcast can get in: greeting
built, client registered, greeting queued. `pipe` holds the frames on their way;
`waiting` the states of a first connection whose handler awaits `pinFingerprint`
(`server.js:1014-1031`, behind whatever else `adopt.js` has queued) while later events
are applied at once, and `hostKey` says whether a connection still is a first one. The
panel's forecast is what `waiting` and then `pipe` will make of it (`Coming`).

**SacnOutput, Lighting.** The socket with its binds under way, retry and watch
timers, an interface that comes, goes and changes address. Over it levels and
colours of fixtures, fades in ticks, identify, patch and profile changes, scene,
the save timer, stop, crash and restart. `want` is what each fixture was last
told; `lit` is what the light shows.

**BleGateway** joins the gateway, the Swift bridge and the phone's session and
retries, one action per handler. A session is its index, so keys are its own.

**AtemTally, WriteCoalescer.** Switcher and network as the code expects them: a new
session per HELLO, repeats until acknowledged, loss, overtaking, ids that wrap
(`Ids` of them, with the code's half-range comparison). HELLO is repeated until one
answer was heard, so several may be answered, late or never, and each answer unpins the
session and forgets the last id (`HelloRepeated`, `HelloAnswered`). A switcher given by
name is looked up by `Open` alone (`LookedUp`). A session is named by its age, which is
all that pinning can tell. The coalescer is used by
the wheel; **PanelEncoder** is the same question for a SKAARHOJ encoder.

**ViscaServer.** A controller is a peer at a seat (shared TCP port, UDP, a camera's
own port); its bytes are cut anywhere, its messages run in one chain. `routing` is
`routes` and `motionByRoute`; the heads are seen from outside, as who holds which
axis.

**RawPanel, PanelController, PanelRoles.** Connect, identification, heartbeat,
retries; topology and map; layout, stick, selection, banks, groups, sleep, Blocked
and what is drawn; and which control gets which role.

**Rig.** The calls of the controller interleave at their awaits over one FIFO of
commands to the device. A command, its answer or its write may be lost, the link may
drop, and a move may outlast the minute `moveTo` waits for it (`Outlasts`).

## 3. The runs

Every run passes and finishes with every reachable state visited.

| run | asks | bounds |
| --- | --- | --- |
| `motion_safety` | does a moving group always have an owner, is a swallowed stop one that is done | 2 groups, 1 speed, a refreshing and a latching client, 3 stop loops |
| `head` | the same over drops, reconnects, stop and re-address; one way to connect and silence after stop; left alone, does the head come to rest; does motion wait only for motion, is every call answered | camera: 1 group, 2 clients, 2 loops, 1 retry counted, 1 late job; queue: 2 moves of one key, a write, a poll, gap 1, guard 2 |
| `visca` | is the last command what the head does, does each run once, are answers true, does every call settle | 3 calls, 20 sequence numbers, 2 faults, 2 moves or stops |
| `settings` | does the history lead back, does it end with an outage, does the panel follow the body | 2 settings of 2 values, history of 2, 3 events |
| `camd` | has the strongest claim the body, is a pinned body found; does a stop outrank starts, does shutdown free callers, is `CommandOutcome` implemented | 2 bodies of one model, an entry of each of 4 kinds, 2 at a time; 1 start, 1 stop |
| `worker` | only pinned sessions; does the worker keep its link | 2 host keys and "no key" |
| `panel` | does the panel follow camd while states wait for their key to be stored, are the takes honest; does a SKAARHOJ panel hold only what it can stop, show what is current, and always try again; are roles sound | client queue of 2 frames, 2 open takes counted, 1 of a waiting state, a relabel and a refresh at a time (`MaxAside`); 2 cameras, 1 group, 1 camera button, 1 lane, 1 line on the wire, 1 fault; 4 places of 9 kinds of control |
| `lighting` | are lights heading where told, is there one socket, do lights arrive | 1 fixture, 2 addresses, fades of 2 ticks, 2 commands, 2 other events |
| `ble` | once, for a cause, follows, revoked is out | 1 command besides activations, 2 sessions, 2 frames, 2 faults, table of 1 |
| `visca_server` | can a controller stop what it holds, is a stick at rest obeyed | 2 cameras, 1 address, 2 axes, 3 seats, 1 peer, queue of 2 |
| `switcher` | does the tally follow, do the last values land | 9 packet ids from the 8th, 5 of them in a session (`Last`), 2 unacknowledged, 2 faults, address or name; 2 keys, 2 values |
| `rig` | is STOP ALL final, does a jog take over only from what is stopped | 2 poses, 3 requests, 1 loss or failed write |

Why these are enough to meet the interesting cases:

* two groups are what `stopAll` needs to clear one and be given up because of the
  other; three tokens allow a group stop, a newer one of the same group and a
  stop-all at once. The queue keeps one job per key, so more clients or speeds
  change only the value a job carries. The camera uses one group, because the
  connection does not tell groups apart.
* one late job covers a job that outlives its connection. The guard may be longer
  or shorter than the gap: gap 1 and guard 2 let a job be abandoned while another
  waits for the gap.
* a start and a stop give the races of `runJob`: the start before, between and after,
  withdrawn, timed out or running.
* a client queue of two overflows with the three frames of one reconnection. One state
  that waits is overtaken by status frames, greetings, a lost camd and a restart; a second
  would wait behind it in the same queue.
* with two faults the switcher restarts, or a second HELLO is answered and its answer
  comes late or is lost, or the socket fails while a name is looked up. Two packets out
  are enough for one to overtake the other; of nine ids a quarter is two, the code's
  margin (`Room`), and the ninth wraps.
* two BLE sessions let a timer, an activation or a command outlive its session; a
  table of one evicts at the second command.
* two VISCA cameras behind one address change places; a third changes nothing the
  address can tell.

Larger instances were checked offline while the models were written: `PtzCamera`
with 3 loops (152 593 states), `PtzSettings` with 4 events (6 299 722, safety
only), `Lighting` with 5 events and an
interface that stays (4 729 300, with the invariant of its proof), `CamdJobs` with 2 starts
(191 730), `CamdDiscovery` with 3 entries at a time (2 571 180), `ViscaServer` with
2 cameras away at once (473 892), `PtzQueue` with 5 jobs and gap/guard 1/2, 2/1, 3/3 (up to
6.6 million), `RecordMirror` with two at a time set aside (7 999 822
with the rest of `panel`), `AtemTally` with 3 faults (131 888 with the rest of
`switcher`), `PanelController` without a pinned group (2 405 432), `PanelRoles` with
5 places of 11 kinds (2.4 million panels). Only `Lighting` found
something the small ones do not (section 5).

Deadlock is checked except where the system may really stop: commands, calls and
events are counted, so behaviours of `head`, `camd`, `visca`, `settings`,
`lighting`, `ble`, `visca_server`, `rig` and `switcher` end when the last has been
dealt with. Symmetry is used for the stop tokens of `motion_safety` and the poses of
`rig`, of which each run checks invariants only.

## 4. Fairness

The specifications assume what the code's schedulers do, and of the environment
only what a property's premise needs:

* Node runs due timers and queued microtasks, promises that are due settle:
  `PtzQueue` (a driver's promise may never settle; the guard's timer answers),
  `ViscaClient` (timers, microtasks, deliveries), `WriteCoalescer` and
  `PanelEncoder` (the write under way ends), `ViscaServer` (chunks read, messages
  run and answered, the deadman of a UDP controller), `PtzSettings` (reads and
  writes reach the body and settle, attempts come to an end, polls happen),
  `Lighting` (the tick, a bind under way ends, the two timers), `AtemTally` (the socket
  is opened again, a lookup ends one way or the other, HELLO is repeated while none is
  answered, the watchdog; the newest unacknowledged packet is sent again until it arrives).
* `PtzCamera`: timers fire and the queue is pumped. Strong fairness of two steps is
  an assumption about the head: one that is asked to stop again and again obeys in
  the end, and one that is reachable identifies in the end. Without them nothing
  could bring it to rest.
* `CamdWorker`: the worker thread steps, waits end, heartbeats age, an HTTP thread
  finishes `repin`. The end of a back-off is a premise of the property that needs it.
* `CamdDiscovery`: the discovery thread sweeps and `addCamera` returns.

`PtzMotion`, `CamdJobs`, `RecordMirror`, `PanelController`, `PanelRoles`,
`BleGateway` and `Rig` are checked for safety and state no fairness.

## 5. The proofs

Checked by TLAPS for every value of the constants that satisfies the named
assumptions: `MotionAssumption`, `CameraAssumption`, `QueueAssumption`,
`SettingsAssumption`, `JobsAssumption`, `DiscoveryAssumption`, `WorkerAssumption`,
`MirrorAssumption`, `PanelAssumption`, `ViscaAssumption` (one of the client, one of
the server), `DriverAssumption`, `OutputAssumption`, `LightingAssumption`,
`BleAssumption`. They say that kinds of values are disjoint,
bounds are numbers, and what is enumerated is finite: the controls of a panel, the
entries and bodies of discovery, a VISCA server's cameras. Five say something of the
world or of a setting: the sequence numbers of a VISCA client (32 bits) do not come round
while it makes its calls; no two bodies have one device identity or MAC; a panel lays out
its cameras, and a poll reads its settings, in a fixed order without repetitions; and a BLE
session allows more than one try (`gateway.js:30` allows three; with one, a
phone refused because its pairing had expired stays shut out although an activation
it asked for before then still takes effect). TLC evaluates them in the runs;
`QueueAssumption` is a definition that the theorems about the queue take as their
hypothesis and `MCPtzHead` assumes. Each inductive invariant was first checked by TLC
on an instance.

* **PtzHeadProofs**, the motion: `TypeCorrect`, `MotionOwned`,
  `SwallowedStopDone`, `DeadmanArmed`. `MotionInv` ties `sent` to the head and to
  the lane: ownership of a moving group is not inductive by itself, because it must follow from `sent`
  that a stop which is not sent was obeyed, and from the lane that no job sent
  before can undo that. One lemma per action.
* **PtzHeadProofs**, the camera: `HeadAnswered`, `OneWay`, `MotionUndisturbed`.
  While the camera is connected `MotionInv` holds and each motion step preserves it by the
  lemmas about the motion; while it is not, the controller is blank (nothing
  held, waiting, running or unconfirmed), which every action outside a connection
  keeps; a drop goes from one to the other and leaves in `movingAtDrop` what the
  next connection must stop, and `Identified` comes back from the blank state to
  the initial condition of `MotionInv`. `OneWay` follows from the link part of the
  same invariant.
* **PtzHeadProofs**, the queue: `OneMotionRuns`, `MotionPrompt`. That a motion job waits at
  most the gap and a turn for each motion job before it needs a count in progress:
  `OnTime` says that what a job has waited, and what the gap or the running job
  still takes, and a turn for each job that is still before it, together stay within
  the bound. `Awake` shows that time passes only when the gap or a running motion
  job accounts for it: a motion job that could start has a pump or a timer due.
  Any gap, guard and set of jobs.
* **PtzSettingsProofs**: `SettingsTyped`, `Forgotten`, `LeadsBack`. `QueueInv` says what
  the jobs of the queue are: what waits has not met the camera, what is late belongs to a
  connection that was given up, the first read is one job at a time. `OutageForgets`
  needs no more. That the history leads back is stated for a moment when no write is
  open, and says nothing about the others, so it is not inductive: `LeadInv` says for every
  moment which settings the history leads back *from*. While a write is made and not
  yet recorded these are the settings before it; while an undo or revert is recorded as
  done and has not reached the camera they are those it will make (`Owed`, `Makes`);
  otherwise the camera's own (`Settled`). `Leads` reads the list: what an entry was
  made on is, for each setting, the value before the next write of it, or the one it
  leads back from. Its lemmas follow the operators of `control.js`: a new entry pushed
  on (`LeadPush`), a write folded into an older entry (`LeadFold`), the list cut at its
  limit or taken back (`LeadCut`).
* **CamdProofs**, the commands: `TypeCorrect`, `AnswersAreTrue`, `PromisesSetOnce`,
  `StopsOutrankStarts`, `QueueKeepsPromise`, `ShutdownFreesCallers`. `JobsInv` says
  who may still set a job's promise (exactly one of queue, worker, withdrawing
  stop, `stop()`), how `phase` follows the worker, and that starts overtaken by a
  stop are over. `SignalOwed` adds who owes the promise of a caller that waits:
  once `stop()` is through, only the queue (the caller that slipped past
  `running_`) or a stop that withdrew it. `QueueKeepsPromise` maps each step to a
  step of `CommandOutcome` or a stutter (`fateOf`).
* **CamdProofs**, discovery: `StrongestWins`. What holds between two sweeps
  (`Settled`) is reached through the middle of one: a body given away is with an
  entry that pins it, by device identity or MAC, or with one that pins nothing while
  nobody pins that body (`ClaimsHold`); once an entry that pins a body has had its
  pass, the body is with an entry that pins it (`PinsDone`); no entry is
  given two (`OneBody`); and an entry told that its body is missing loses it
  (`ToldMissing`). Any number of entries and bodies, any additions and removals in mid-sweep.
* **CamdProofs**, the worker: `WorkerTyped`, `SessionPinned`, `PinIsKept`. `SessionFits`
  relates session, pin and state; the case that carries it is an `open()` that
  returns while a `repin` is under way.
* **MirrorPanelProofs**, the mirror: `MirrorTyped`, `TakesHonest`, `Follows`. For the takes, camd's and
  the world's steps leave the panel's half alone (`CamdKeeps`, `WorldKeeps`), so only
  cambridge's handlers count. `Follows` is about what the panel will show when the
  frames on their way have been applied: `Forecast` folds over the states that wait and
  then the pipe, and its two
  halves are proved to be determined by the last frame that says something
  (`ForecastUp`, `ForecastRec`), so that a frame added at one end or taken at the other
  changes it as it should (`ForecastAppend`, `ForecastTail`). A state that begins to wait
  moves from the head of the pipe to the end of those that wait, which changes nothing of
  the sequence (`Regroup`, `Begins`); a frame applied in front of one that waits is the
  sixth step `stale` names. Any queue length, any number of states that wait.
* **MirrorPanelProofs**, the panel: `Holds`, `ShowsWhatIs`, `Sought`, in layers. `LinkInv` says how socket,
  timers and flags of the link go together, from which a panel that is to be driven
  always has a retry or a connection on its way. `HoldInv`: a lane held on
  a camera is a deflected stick, a role, and the selected camera, online and in scope,
  or one of the named slips. `SentInv` and `ShownInv` follow the face: without a
  repaint due, what was sent last is what is to be shown; and that is what is shown,
  unless the panel went to sleep since and its word of that is still on the wire.
* **SonyDriverProofs**: `CommandsRunOnce`, `AnswersTrue`, `LastHolds`. `Base` says who is in the pump's
  hands and who waits, each call once, and that nothing of those who wait was ever sent.
  `OnceInv` follows the numbers: before the first RESET is answered no message was sent
  (`Fresh`); then every number on its way or awaited belongs to one call (`Numbers`, with
  what each call may still use, `Spare`, so that the numbers suffice) (`Running`); and a
  second RESET cannot be answered by a head that forgets nothing, so that from then on no message is
  sent (`Renewing`). With that a command that ran has no copy left that the head would
  run (`Runs`). `TrueInv` adds what an answer on its way says of the call it is for
  (`Says`), and that a number is refused only after a second copy was sent (`First`).
  The attempt to prove `RunsOnce` showed that it needs an exception: replies to RESETs carry
  no number, and if one is still on its way when the next RESET is sent it is taken for the
  answer to that; the client then starts again from 1 while the head
  still remembers, or forgets later. The slip `stray` names it (`visca-client.js:558-561`).
  `LastHolds` rests on two more parts. `DriverOk`: which calls may be unanswered (the motion
  call in hand, the re-stop in hand and withdrawn ones), and that of an open driver that has
  ever made a call VISCA is up or lost. `LastInv`, while nothing disturbed: no
  move is behind a stop the driver waits for (`Stopping`, `Behind`), and once that stop has
  run nothing moves; no move is on its way while a stop goes over CGI alone (`CgiOnly`:
  VISCA is not lost, so that no re-stop will follow); after a stop that was done the head is at rest
  or the re-stop is pending (`Done`); and while a move is in hand or was the last, no stop
  is with the pump or on its way unless it could not be recalled (`Driven`, `NoStops`).
  All that the steps of the client and of the network do to this is in one predicate
  (`Effect`: what is sent joins the end and is for the call in hand, which was wanted when
  it was taken), so that `LastEffect` serves them all; the head taking a message
  (`LastTakes`) and each step of the driver are proved one by one. That an answer taken
  as done means that the command ran is `TrueInv` (`ToldIs`).
* **ViscaServerProofs**: `TypeCorrect`, `HoldsStoppable`. A hold can be stopped
  because a route remembers its camera; that is inductive only together with: a
  controller on a camera's own port has no routes (`DedicatedIsUnrouted`), a route
  of an axis goes to a camera or nothing, and only open controllers hold.
* **LightingProofs**: `LightsHeadWhereTold`, `SocketIsOne`. `LightInv` has four parts.
  `WantInv`: what was told fits the profiles, and only of a program that is down may
  it lack a colour the profile has. `CurInv`, while the program runs: each parameter
  that counts has a number, heads where it was told, and its fade started from a
  number. `SceneInv`: the scene holds what was told when it was saved. `DiskInv`:
  unless a save is due or the patch changed since the last one, a restart restores
  what was told. `ChangedKeeps` serves every command that fades, `ReloadKeeps` every
  change of patch or profile, `DownKeeps` stop and crash. That a fade ends at its
  destination is `PositionIs`. The attempt to prove it showed that the exception
  `odd` was too narrow at first (a profile changed under a colour fade) and TLC,
  given five events, found the behaviour: a scene saved without a colour its fixture's
  profile now has, recalled after the fixture was removed and added. A fixture whose
  state has no colour although its profile has is now excepted by name. `OutInv`
  carries `SocketIsOne`: while a bind is under way it is the only one, and no socket
  is bound.
* **BleGatewayProofs**: `TypeCorrect`, `CommandsAppliedOnce`, `PhoneShowsLatest`,
  `RefusedOnlyForCause`, `RevokedIsShutOut`. The gateway's operators work on a
  record; their lemmas (`SendIs`, `AuthIs`, `SettlesIs`, ...) say once what each does
  to the variables, and every invariant has its own reading of those effects.
  `DedupeInv` carries the first result: an answer says what became of the entry
  (`EntryInv`), a call whose copies may still come has one entry and it is in the
  table (`TableInv`), and the only copy of a call is under way, or taken, or declined,
  never two of these (`CallInv`): without the last, an answer `early` could reach the
  phone of a call whose request is still to be run. `SessionInv` and `StreamInv`
  carry the second: the updates on their way have rising numbers (`Rising`) that no
  earlier one exceeds (`Bounded`), none is missing between what the phone shows and
  the session's count (`Gapless`), and the last is the live state (`Current`); so the
  phone, which checks for the next number, finds no gap and ends at the live state.
  `TurnsInv` carries the third: while nothing was slow, cut or revoked the phone and
  the gateway take turns, what is on its way fits the state of the session and a timer
  belongs to the session there is, so neither a late timer nor a stray message can
  end in a refusal.

Checked by TLC only, because the prover cannot reach them: everything temporal
(`QuietCameraRests`, `EveryCallIsAnswered`, `EveryCallSettles`, `PanelFollows`,
`PinnedIsFound`, `LinkIsKept`, `LightsArrive`, `RestIsObeyed`, `TallyFollows`,
`LatestLands`), which is liveness under fairness and ENABLED; and `RolesAreSound`, which
is about what a fold of guesses over a sorted sequence computes for every panel.
`Rig`'s `StopAllIsFinal` and `JogTakesOver` are about one lost command, write or link: a stop
sends its abort twice, so they hold for `MaxLost = 1` and a theorem would have to be about
that bound; its commands are built with `FlattenSeq`, over which no proof goes through here.

## 6. Where code and comments disagree

Met while modelling; the models follow the code, and each is either an exception
that a property names or outside what the properties say.

*Motion and connection.*
* `motion.js:204`: a group stop confirmed while a newer move of the group waits
  records `sent` as zero; the release after that move looks like a duplicate and is
  swallowed (`excused`).
* `motion.js:107,112`: a stop-all is given up for all groups once one is driven again
  (`excused`).
* `motion.js:188`: a drop takes a stop's key away and the stop answers ok, although
  the head still moves (`source.js:146-148` wants this named).
* `source.js:104`: re-addressing forgets the stop promised to a moving head
  (`excused`).
* `lifecycle.js:661-667`: a tally lamp set while a head is not connected is dropped
  and not repeated.

*VISCA client.* A sequence error after a retransmission counts as success although
the answer lost may have been a refusal (`visca-client.js:576-577`). `stillWanted` is
not asked again after a wait for buffers or RESET (`186-189` against `737-741`).
Without an echoed number a late sequence error hits the next message. The reply to an
earlier RESET is taken for that to a later one (`558-561`). A probe that
succeeds during a CGI stop clears `lostMidSession` (`sony-brc.js:327`).

*Settings and history.* Overlapping undos clear `suspended` early
(`server.js:1376-1377`); what another operator writes meanwhile is never recorded
(`441`); late answers of a connection that was given up enter the history and the
panel (`943-948`, `state.js:188`); an undo takes its entry off before its write
(`1381`) and steps over a recall's mark (`control.js:240`); a write may fold into an
older entry (`control.js:211`, against `server.js:1375`). One refused read marks a
setting unavailable (`lifecycle.js:450,462`), and the end of an old connection's poll
removes the mark of the new one's (`435` against `379`). `refreshProperties` awaits
and then replaces properties without asking whether the camera is still connected,
against `state.js:175-177`.

*camd.* A caller whose deadline passes while a record stop withdraws its command is
told "unknown" (`registry.cpp:201`), which `registry.h:40` keeps for commands that
had started. In Unauthorized a reconnect request is neither used nor cleared (`642`).
The wait's predicate holds at once when the refresh floor has expired and the loop
cannot serve it (`649-656`). `snap_.status` survives a disconnect: a greeting during
the outage shows a recording again, and the status after the reconnect raises the
second alarm `state.js:162-164` means to prevent. Discovery: entries pinned to one
body by device id and by MAC are not refused; `addCamera`'s offer can put two cards
on one body until the next sweep, and an unpinned entry keeps a body another adopts,
against `916-919`; entries matched by model or address cannot open a USB body, whose
MAC is empty (`sony_backend.cpp:733-737`); a match by model can change bodies when
one is briefly away; `api.cpp:139` does not upper-case a posted MAC.

*Mirror.* `replaceAll` shows a recording without a take (`state.js:97` against
`341-342`) and wipes an alarm nobody acknowledged. One record intent per camera: a
start pressed before a stop is confirmed overwrites it and the stop is reported as a
drop (`server.js:463-469`); a first status that could not be read can raise a false
drop. The `connectionState` of a first connection waits for its key to be stored
(`1014-1031`, behind every other change of the config, `adopt.js:67-78`), while the
status frames after it are applied at once: when its turn comes it clears the recording
they showed (`state.js:191-198`), and camd says so again only at the next change; and if
the config cannot be read `pinFingerprint` throws (`adopt.js:94-101`) and the state is
lost (`stale` names both).

*BLE.* After the bridge's link has dropped and returned the phone is not told; its
next command is refused and it is blocked (`gateway.js` against
`Peripheral.swift:218`). An authentication timer outlives its session
(`gateway.js:132,153`). `#sendFull` uses the keys of the session that asked. A full
dedupe table evicts entries that are pending (`353`). The bridge drops a session
whose outbox is full without telling the phone (`Peripheral.swift:196-201`).

*Bridges.* After an order change a controller's stop goes to whatever camera has the
address now, and can end somebody else's move; routes of an offline camera make every
command on that address fail until it returns; routes of closed controllers are never
removed; a waiting command's camera is decided when it runs. Tally: a lost packet
overtaken by a later one is never acted on (`atem.js:204-214`, `missed`); a switcher whose name is not found at start is never
followed, although HELLO goes on being sent and answered: the lookup is made by `#open`
only (`97-101`), which nothing calls again while the socket is well, and `receive` drops
everything from an unknown address (`183-185`), against `108-109` ("must still be picked up
without anyone restarting cambridge"; the exception `Unresolved`); a second HELLO answer
resets the duplicate check (`191-197`), so that the repeat of an old packet is acted on
after the latest (`missed`);
at "disconnected" only the panel is cleared, the heads' lamps stay (`server.js:514-516`
against `512-513`); a camera that joins the mirror later shows no tally until the next
cut; stop() and start() within a
second leave two sockets. The coalescer leaves a value without a timer when it is
submitted after stop() while an old flush runs; nothing does that today.

*Lighting.* A colour can become NaN after a profile change (`engine.js:70,261-267`),
a fade's end can lie out of range; `updateProfile` lets fixtures overlap, which are
then dropped (`service.js:470-478`); `engine.configure` emits no 'change';
`configure()` during a bind installs a socket for the old address
(`output.js:215-245`) until the watch timer corrects it.

*SKAARHOJ.* With a pinned group, `#selected()` selects anew when the camera's group
changes and the old camera's latched move is not released; a topology pushed again
lays out without releasing; a camera that comes or goes while the panel sleeps lays
out from the zeroed map; STORE reset by Blocked is not redrawn; an encoder turned
1.5 s into a slow write steps from the old value, and a refused write deletes a newer
target; with more buttons configured than are free some cameras have none.

*Rig.* A pose tapped while disconnect stops the rig moves it with nobody connected
(`rig_controller.dart:251-258`, `slips`); `moving` is one flag for overlapping calls
(`305-308`); a second recall during a recall is ignored; a move whose write failed
unseen leaves the loop waiting; a pad held during a pose's own stop is dropped. A move
that takes longer than a minute is given up waiting for (`device.dart:990-999`) and
`moving` is cleared (`rig_controller.dart:525-527`) while the rig goes on moving, as it is
after a move whose write failed although the rig got it: a pad held then
drives without stopping it first (`unwatched`).

*Panasonic driver*, read and not modelled: a recall whose unit query is slow is sent
after a confirmed stop; a camera closed while the shared listener starts keeps it open;
a registration whose answer is lost is never taken back; a camdata reply in flight is
used for 1.5 s after a newer push; a preset recall ignores a failed stop
(`lifecycle.js:636`).

## 7. What is not modelled

`PROJECT.json` lists every part with its status. Left out on purpose: parsing,
formatting and wire formats, the vendor SDK and the simulators, rendering, files on
disk, accounts and adoption, installation, vendored code. Of the modelled parts:
presets, position and status polls, the drivers of other vendors (their motion is
what `PtzMotion` expects of a driver); properties of Sony cameras, record intents and
the drop alarm; multicast and the import of lighting fixtures; several phones and
cooling-down in BLE; camera-control decoding and VISCA inquiries; rollers, twist,
tracking and texts of the SKAARHOJ panel; saving of poses, scanning, point mode and
the jib of the rig.

Real time is abstracted to order: a timer may fire at any moment once set, except in
`PtzQueue`, where ticks count because gap and guard compete. Memory order in camd is
taken as sequentially consistent; the atomics use the default ordering.

## 8. What is left

In order of worth: record intents with the mirror; `Rig` (its lists of commands have to be written without `FlattenSeq` to be
reasoned about); presets of the PTZ lifecycle; the Panasonic driver's shared
listener; a lighting instance with two fixtures in the run.
