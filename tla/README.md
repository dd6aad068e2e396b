# qnob: a TLA+ model

qnob is a Windows tray program: knobs (hotkeys or the mouse wheel over a tray
icon) change *settings* (the volume, the brightness of the monitors), and OSD
windows and tray icons show them.  The program is a single GUI thread with an
event loop, plus a pool of worker threads for slow monitor I/O, callback threads
of the audio service, and a small futures library.  This directory models the
parts of it that are hard to test: what those threads do to each other, in which
order things are destroyed, how the several copies of a setting's state are
kept together, and what a whole run of the program leaves behind.

Paths below are relative to the `src/` directory of the repository.

## 1. Inventory

| component | state | operations | talks to |
|---|---|---|---|
| Worker pool (`util/thread/worker_pool`) | two maps from worker to thread (living, killed), idle threads, a mutex and a condition | `run`, `kill`, `waitForDone`, destructor; `releaseWorker` in worker threads | everything that runs in a thread; called only from the GUI thread (`monitor.cpp:27,38`, `qnob.cpp:63`) |
| Monitor, MonitorServer, MonitorQueue (`lib/monitor`) | cached properties and capabilities, count of pending initial replies; a hash map of actions; the server's platform monitor | `setProperty`, replies, destruction; `processQueue` | worker pool, platform monitor |
| MonitorManager, MonitorEnumerator | the list of Monitors; results and pending count of each enumerator | `updateMonitors`, `enumerate`, `finished` | Monitors, brightness backend |
| Start and shutdown (`qnob/qnob.cpp`) | entity pool, platform, global worker pool | modes; scope guard that joins the workers | all of the above |
| Futures (`util/async`) | per state: data, continuation, cancelled, connection to the context | `then`, `get`, `cancel`, `detach`, promise set; delivery of callbacks | Qt event queues of context objects |
| Setting (`core/setting`) | cached state; backend's cached value (brightness) | `setState`, `activate`, external change, initialization | backends, tray icon, OSD |
| Volume control (`platform/win/win_volume_control`) | device interface, registered event handler | device change, external change, set/get | audio service threads |
| Knob, OSD, tray icon (`core`) | -, phase of the animation, the icon | `increase`, `decrease`, `toggle`; show, hide | Setting |
| Entities and configuration (`core/entity`, `qnob/qnob_config`) | pool of entities by id, TOML values, factories | read values, create, load all or none, erase, find | all of core |
| Hotkeys, tray events, meta calls (`core/hotkey`, `core/tray_event`, `lib/metacall`, `win_shortcut_*`, `win_wheel_event_manager`) | registered notifiers, icons and controls; closures | register, dispatch a queued message, invoke | entities, Windows messages |
| Win10, sound (`core/win10`, `core/sound`) | whether the native OSD was hidden | hide, restore | window search of the platform |
| Logging (`lib/logging`) | the global logger, a bounded buffer, the file | log, flush and replace | everything |
| Command line (`lib/command_line`, `qnob_args`) | - | parse, print the help | console, Qt's parser |
| Keys, serialization (`lib/keys`, `lib/serialization`) | tables of names and native codes | read and write names, convert | configuration, `--list keys`, hotkeys |
| HEOS connection (`lib/heos`) | socket, connect promise, queue of commands with promises | start, stop, send; connected, error | futures; nothing uses it yet |
| UPnP discovery (`lib/upnp`, `core/heos`) | one socket per address | start, discover, read datagrams | network, the entity `Heos` |
| Windows monitors (`platform/win/win_monitor*`) | handle, cached ranges, retry budget | enumerate; get and set with retries | monitor server, DDC/CI |
| Skins, utilities, scope guards, thin wrappers | little | | |

The hard behaviours, listed with their lines under `hazards` in
`PROJECT.json` (those no property is about are in section 5), are of seven kinds: critical sections of GUI and worker threads
that interleave (worker pool, monitor queue); notifications that are posted to
an event loop and may be overtaken, doubled or dropped with their receiver
(monitor, enumerators, volume control, futures); destruction in the middle of
something (contexts of futures, Monitors with unwritten values, the platform);
copies of one state (setting, tray icon, OSD, backend, device); NaN, which two
platform interfaces return for "failed" and which equals nothing; failure half
way through a sequence of steps in hash order, each of which changes something
outside of the program (entities, hot keys, windows); and what comes from outside
in any form and at any moment (sockets, datagrams, monitors that are plugged).

What makes each component correct:

* **Worker pool**: a thread has one owner; a dying worker is found in the map
  the assertion looks in; a reused address never meets an old entry;
  `waitForDone()` returns, and only when every worker is gone.
* **Monitor**: no queued action without a notification on its way; values reach
  the hardware in order and the last one always does, destruction included;
  `initialized()` exactly once and only with everything read.
* **Manager and shutdown**: every Monitor is owned once and destroyed once,
  however enumerations overlap; a published list holds initialized Monitors;
  the platform outlives all servers; the program exits.
* **Futures**: every `get()` returns with a result the chain computed, or a
  context error with a destroyed context; nothing is posted to a dead object.
* **Setting**: what is shown is the Setting's state; the Setting's state is the
  device's; a turn of the knob goes in its direction.
* **Entities**: a configuration is loaded as a whole or not at all, whatever the
  order; nothing outlives the pool; OSDs and icons fit the screens there are.
* **Events**: a key or a turn of the wheel reaches the closures it is bound to.
* **Logging and command line**: no message is lost but the oldest of too many;
  the help says what it has to.
* **Connection**: every promise is kept once; **discovery**: each answer counts
  once, whatever is around it.
* **Windows monitors**: a handle has one owner, an id means one monitor, and a
  number that is sent is in range.

## 2. Modules

| module | models | composes |
|---|---|---|
| `WorkerPool` | `util/thread/worker_pool.{h,cpp}` | |
| `WorkerPoolProofs` | theorems about it | `WorkerPool`, `TLAPS` |
| `LatestValue` | abstract: what setting a monitor's property promises | |
| `Monitor` | `lib/monitor/monitor*.{h,cpp}`, one Monitor with its server and queue | implements `LatestValue` |
| `MonitorProofs` | theorems about it | `Monitor`, `TLAPS` |
| `MonitorSystem` | `monitor_manager`, `monitor_enumerator`, the shutdown in `qnob.cpp` | extends `WorkerPool` |
| `MonitorSystemProofs` | theorems about it | `MonitorSystem`, `WorkerPoolProofs` |
| `FutureChain` | `util/async/{future_state,future,promise}.h` | |
| `FutureChainProofs` | theorems about it | `FutureChain`, `TLAPS` |
| `VolumeControl` | `platform/win/win_volume_{control,event_handler}` | |
| `Setting` | `core/setting`, `core/knob`, and what OSD and tray icon show | extends `VolumeControl` |
| `SettingProofs` | theorems about it | `Setting`, `TLAPS` |
| `EntityLoading` | abstract: what `EntityPool::loadEntities()` promises | |
| `Keys` | `lib/keys`, `lib/serialization/enum_*`, `win_shortcut_key_table.h`, `util/memory/pod_pool` | |
| `EntityConfig` | `core/entity/entity_{config,parsers,factory_pool}`, `qnob_config`, `lib/metacall` | extends `Keys` |
| `Desktop` | `platform/win/win_{shortcut_manager,wheel_event_manager,metrics,platform,hwnd_control}` | extends `Keys` |
| `Entities` | `core/{entity,hotkey,tray_event,osd,tray_icon,win10,skin,sound}` | extends `Desktop`, `EntityConfig` |
| `CommandLine` | `lib/command_line`, `qnob/qnob_{args,command_line_parser}` | |
| `Logging` | `lib/logging` | |
| `Qnob` | `qnob/qnob.cpp`, `default_entity_pool.h`: one run of the program | extends the four above; implements `EntityLoading` |
| `QnobProofs` | theorems about it | `Qnob`, `SequenceLemmas` |
| `StreamingConnection` | `lib/heos/streaming_connection` | |
| `UpnpDiscovery` | `lib/upnp/upnp_discovery_endpoint`, `core/heos` | |
| `WinMonitor` | `platform/win/win_monitor{,_manager}` | |
| `Devices` | | the three above, side by side |
| `DevicesProofs` | theorems about them | `Devices`, `SequenceLemmas` |
| `SequenceLemmas` | lemmas about sequences, and induction | `TLAPS` |
| `MC*` | constants for TLC | |

### WorkerPool

State: the two hash maps (functions with `NoThread` for "no entry"),
`m_freeThreads`, and for each *address* the life of the worker object there
(`none`, `fresh`, `alive`, `doomed` after `deleteLater()`, `destructing`,
`released` after `destroyed()` was emitted).  `created` and `running` are the
QThread objects and the event loops.  The GUI thread's position `pc` splits
`run()` where the code unlocks: `ReuseThread` (critical section, then creating
and starting a thread), `MoveToThread` (unlocked), `Register` (`emplace`, which
keeps an old entry).  `Kill`, `WaitForDone`, `Recheck` (the loop after a
wakeup), `ExitThreads` and `JoinThreads` (destructor) are the rest of main;
`BeginDestruct`, `ReleaseWorker`, `FreeWorker`, `ThreadExit` are the worker
threads.  Which idle thread is reused is left open (the code takes the last).
That `~QObject` still runs on the thread after it was put into `m_freeThreads`
is in the model (`released`), and so is the reuse of an address.

### Monitor and LatestValue

The queue is a map keyed by action, so a new write replaces a pending one and
`popAction()` takes any entry (hash order).  `SetProperty` and `NotifyServer`
are separate because the queue's mutex is released between them and the server
may drain the queue in between.  The server's events (`processQueue`,
`deferredDelete`) and the Monitor's events (completed-signals) are sequences:
Qt delivers posted events of one receiver in order.  Destroying the Monitor
drops its inbox and posts a deferred delete behind the notifications.  The n-th
value set for a property is the number n, and `issued` and `applied` are
history variables, in which `LatestValue` says what is promised: values are
applied in order, none twice, and the last one always (fairness included).
A read may return NaN.  A write counts as applied when the platform is called:
`PlatformMonitor::setProperty()` returns nothing, so no code can tell more.

### MonitorSystem

The manager, its enumerators and the shutdown run on the *actual* worker pool:
`MonitorSystem` EXTENDS `WorkerPool`, and a handler that builds or destroys
Monitors is a sequence of pool operations between which worker threads run
(`task`, `todo`, `victims` are the handler's locals).  Enumerators that are
overtaken by a newer one are not cancelled by the code, so several wait at once.
Each Monitor is reduced to its initialization (`initializing`, `replied`,
`ready`), which `Monitor` models in detail.  `Quit` stands for the end of the
event loop, for an exception that leaves `runService()` and for the end of
`runList()`: in each of them the entity pool is destroyed (list first, then the
child enumerators), then the scope guard joins the workers, then the platform
goes, then the global pool.

### FutureChain

A promise, its future, and up to `MaxChain` calls of `then()` in sequence, each
with a context object of its own in a thread of its own; one user holds the last
future.  A step is a critical section of one state's mutex.  Finishing a state
calls the continuation under that mutex and takes the next state's mutex inside;
this is one step.  Cancellation walks from child to parent with no mutex held in
between, so each parent is a step (`walk`).  `~QObject` of a context is three
steps: `destroyed()` starts being emitted (from there on a `disconnect()` is too
late), the slot runs, posted events are removed.  Assertions do not stop the
model (release builds have none); they are properties.

### VolumeControl and Setting

Levels are 0..`Full`; a signal of the event handler queued to the GUI thread is
an element of `events`; devices come, go and become default at any time
(`ChangeDevices`), and other programs change volume and mute state.  `live` says
whether the device interface still works.  Calls fail only when the device is
gone, and COM is assumed to initialize.  `Setting` has the cached state, the
backend chosen by `target` (a Setting has one backend for its whole life, so one
run covers both: the state spaces add up instead of multiplying), the knob, and
what the tray icon and the OSD window show.  `SetState` translates the two tests
of `Setting::setState()` including `NaN # NaN`; `Clamp` models the snapping of
values within 0.001 of the ends.  The OSD is the phase of its animation.
`synced`, `notified` and `inRange` are history variables: whether the control has
kept the device the Setting's state was read from, whether the OSD has been told
at all, and whether every value passed to a backend was in [0, 1].

### Qnob and what it is composed of

`Qnob` is one run of the program, `pc` being where the main thread is: logger,
command line, one of the modes, configuration, entity pool, event loop,
destruction.  `Throw` and `caught` are its exceptions.  The loops of
`loadEntities()` take one configuration in a step, in the `order` a hash table
has them, which is any.  What an entity does is in `Entities`, one action for
each loader, event handler and destructor; `LoadFails` and `PartOfLoad` say when
a load throws and what it has done by then.  A sound may name a file that exists
and cannot be opened (`Files` against `ReadableFiles`); the record was accepted
then, and the load throws all the same.  `Desktop` is the platform: the
shortcut manager counts ids up and Windows refuses a combination that is taken;
the wheel manager picks the icon or the controls under the cursor; the volume OSD
of Windows is found only if exactly one window looks like it.  The user and
Windows act at most `MaxEvents` times, in the event loop or, for what is posted
to the message queue, already while entities are loaded.

`EntityConfig` reads a record as the code does: a value has a TOML type, a
parser accepts it or throws, and references are looked up in the pool.  A closure
may name the one-overload methods that a class declares or inherits: from QObject
these are `deleteLater` and the signal `objectNameChanged`, but not `destroyed`.  `Keys` has
the tables in full, since `--list keys`, the configuration and the native codes
have to agree about them.  Texts are abstract elsewhere: `CommandLine` represents
a text by its length and the positions of white space and line feeds in it, which is
all that `wrapText()` looks at; `Logging` represents a message by its number
of lines.

`EntityLoading` is what the holder of the pool may rely on: present are the
built-in entities, and the configured ones all together or not at all.
`Qnob!PoolIsAtomic` is the refinement: while `loadEntities()` runs nobody else
sees the pool, so the abstract pool lags behind.  It also says which configurations
may load and which may fail; both only where the order decides between
two hotkeys with one trigger.

### StreamingConnection, UpnpDiscovery, WinMonitor

A promise is a number in the order of calls; a command is its promise and whether
`set_error()` has taken its state already.  `BreakDuringFlush` is a socket that
breaks inside `flush()`, and the second half of `Start` is one whose signals come
inside `connectToHost()`: in both the code goes on with something that is gone,
so the model stops (`crashed`) and notes that it was undefined (`risked`).
A `send()` on a failed socket is undefined as well but does not stop it: what it
leaves in the queue is found by `stop()` or by the next error.

A datagram is a sequence of lines with their ends, `WithLine` is what one header
line does to the reply.  The reference in `DevicesAreFound` names the last line
that counts instead of folding over them.

In `WinMonitor` the lists of device names and of physical monitors are two steps
of an enumeration, several of which run at once while `topology` changes.  For a
single monitor every call fails any number of times before it succeeds or the
budget is spent.  `Truncated` computes `mapToNative()` with 24 bits of mantissa,
rounded to even after the quotient, the product and the sum, as the compiled code
does; a value that was read keeps the quotient it was rounded from.

The three share no state.  `Devices` chooses one in the initial state (`part`),
and WinMonitor counts as two; an interleaving of them would show nothing more.

## 3. Runs

| run | properties | result |
|---|---|---|
| `worker_pool` | types, `ThreadHasOneOwner`, `ReleaseFindsWorker`, `AddressIsFresh`, `DoneMeansDestroyed`, `CloseJoinsEverything`, `WaitTerminates` | hold |
| `monitor` | types, `ActionIsNotified`, `NothingLostAtDestruction`, `InitializedIsComplete`, `CacheSettles`, `Initializes`, `ImplementsChannel` | hold |
| `monitor_system` | types, `ListedAreReady`, `MonitorHasOneOwner`, `PlatformOutlivesMonitors` | hold |
| `monitor_system_live` | `EnumerationDelivers`, `ShutdownCompletes` | hold |
| `qnob` | `NothingIsLeftBehind`, `DisplaysFit`, `EventsReachTheirTarget`, `LogIsComplete`, `HelpIsReadable`, `PoolIsAtomic` | hold |
| `devices` | `PromisesAreKept`, `DevicesAreFound`, `HandlesAreOwned`, `WritesAreInRange` | hold |
| `future_chain` | `ResultIsJustified`, `DeliveryIsExpected`, `PostIsSafe`, `GetReturns`, `CancelReturns` | hold, if only the promise's own future is cancelled |
| `future_chain_cancel` | `CancelReturns` | violated: finding 1 |
| `future_chain_ready` | `ParentHasContinuation` | violated: finding 2 |
| `setting` | `ShownIsCurrent`, `CacheFollowsVolume`, `ListensToDefault`, `BrightnessAgrees`, `KnobMovesVolume` | hold |
| `setting_range` | `SetValueInRange` | violated: finding 3 |
| `volume_device` | `ChangesAreAnnounced` | violated: finding 4 |

`MCQnob` also assumes four facts about pure functions, which TLC evaluates over
small inputs before the run: a key that is listed can be written into a
configuration and registered (`ListedKeysAreTriggers`), names of mouse keys are
read in any case (`MouseKeysAreRead`), strings in a `PodPool` are apart
(`StringsAreApart`), and `wrapText()` drops no more than a last part of a text that is
broken at its last character (`TextsAreKept`).

The properties that hold say what the code does also where that may surprise:
`wrapText()` may drop a last word, an exception in list mode is logged to a buffer
that nobody writes, of two hotkeys with one trigger the hash order chooses, a
value may be written back to a monitor one step below what was read (59 of 100),
and a connection that fails inside a call of its own is undefined behaviour.

The findings, each a comment or documentation of the repository that the code
does not keep:

1. `Future::cancel()` of a future made by `then()` never returns unless its
   source has already completed: a cancelled parent finishes without calling its
   continuation, so nobody wakes the child.  `future.h:112` promises to wait for
   completion.
2. `then()` on a ready future leaves the source without a continuation, and a
   later cancellation reaches it; `future_state.h:62` says that it must have one.
3. `setValue()` of a backend can be called with NaN (no audio device, or a
   monitor that cannot be read); `setting_backend.h:21` wants [0, 1].
4. After a change of the default device nothing is emitted, and the knob starts
   from the old device's volume; `platform_volume_control.h:23` promises
   `changedExternally()`.

### Bounds

* `worker_pool`: 3 addresses, 4 threads.  Three addresses let one worker die
  while a second is registered and a third runs; one spare thread shows a
  thread created although one is idle.  The safety half is also proved for any
  number.
* `monitor`: 2 properties, 3 values each: a pending write is overwritten, one
  is popped while the next is added, and a third comes after both.
* `monitor_system`: 4 addresses and threads, 2 displays, 3 enumerations: two
  lists of two Monitors alive at once and a third enumeration behind them.
  `AddressesLeft` bounds when an enumeration may start; it is reached only while
  old servers are still dying.  Addresses, threads and displays are symmetric in
  this run.  `monitor_system_live` has 1 display and 3 addresses and no symmetry.
* `future_chain`: 3 continuations, the last of which takes a `FutureResult`
  (so errors reach a callback): a first, a middle and a last future are distinct
  cases.  The two violation runs need only one continuation.
* `setting`: 2 devices, 5 levels, 2 queued signals, 2 monitors, a knob step of 2
  levels.  Levels 1 and 3 snap to the ends.  `Len(events) < MaxEvents` in the
  actions of `VolumeControl` is the bound on undelivered signals.

* `qnob`: 22 configurations, each for one way to load, to fail or to be used, and
  9 command lines; 2 events of the user and Windows, so that one message can be
  queued behind another or behind a change; buffer of 2 messages against up to 3
  before the log is open; console widths from too small to wider than the text.
  One configuration needs one run of the program, so they add up.
* `devices`: 6 promises let a connection fail with two commands queued, be
  started again and fail again; 3 datagrams of 6 forms at two sockets; 2
  enumerations over 3 topologies, with twins on one display, a mirroring driver and
  an id that is malformed; one property of a monitor with 3 ranges, values at
  which the float product falls below an integer (53 and 59 of 100), a budget of 2
  retries.  NaN becomes 0 or 1000 as an integer: in range and out of it.

`CHECK_DEADLOCK` is left on but for `devices`, where a connection that is
destroyed or crashed and a budget of datagrams that is used up really stop; terminal states have an explicit
stuttering action (`Closed`, `Terminated`, `Exited`).

### Fairness

* Worker threads are scheduled: WF on each worker's and each thread's step.
* The GUI thread finishes the call it is in (`MoveToThread`, `Register`,
  `Recheck`, `JoinThreads`, `Handler`); that it makes another call is never
  assumed, and neither is `Quit`.
* Event loops deliver what was posted (`TakeEvent`, `HandleReply`, `Deliver`).
* A promise is fulfilled (`promise.h:13`: not doing so is undefined behaviour) and
  contexts' threads run an event loop (`future.h:171`).  Destruction of a context
  has no fairness for its start, only for its end.
* `popAction()` takes *any* entry, so a write might in principle wait for ever
  behind an endless stream of writes to another property; the liveness part of
  `LatestValue` uses that the number of writes is finite (`MaxWrites`).
* `qnob` and `devices` check safety only: nothing there waits for another thread.
* No property assumes strong fairness.

## 4. Proofs

Eight modules hold theorems, each for every value of the constants that the
named assumptions of the specification allow.  All 30 invariants of the
runs are proved, and the action properties `KnobMovesVolume` and `PostIsSafe` and
the refinement `PoolIsAtomic`; one theorem proves the safety half of
`ImplementsChannel`.  An invariant marked IInv below was an invariant of a run of
TLC first.  Every module is laid out alike: the parts of the invariant, a lemma
for each action, one step for each part an action can disturb, `Invariant`,
and then the properties.

**`WorkerPoolProofs`**, for every set of addresses and of threads, finite or
not: `TypeCorrect`, `OneOwner`, `ReleaseAssertion`, `NoStaleEntry`,
`WaitPostcondition`, `CloseLeavesNothing`.  None of the properties is inductive.
Handing the killed entry's thread to `m_freeThreads` keeps `ThreadHasOneOwner`
only if that entry exists, which needs `ReleaseFindsWorker`, which needs that a
worker is in the living map exactly while it is alive, up to the window in
`run()` in which main holds it.  IInv adds these facts: `MainInv` (what main's
locals hold at each `pc`), `LifeInv` (maps against lives), `RunningInv` (threads
that run are created, and a thread with a destructor on its stack runs),
`DoneInv` (what the return of `waitForDone()` leaves).
Assumed: `NoWorker` and `NoThread` are no worker and no thread.

**`MonitorProofs`**, for every finite set of properties and any number of values:
`TypeCorrect`, `NoLostWakeup`, `LastValuesAreWritten`,
`InitializationIsComplete`, `CacheIsRight`, and `ImplementsLatestValue`.  An
action is in one of four places, the queue, the server's hands, the inbox or
done with, and IInv says for each kind of action what the places ahead of it
hold.  `ValueInv` does it for writes: what is in the queue is the last value that
was set, what the server holds is later than what the hardware has; that makes a
value overwritten in the queue harmless.  `DeleteInv` says that a deferred
delete is the last event there is, behind a notification for everything that is
queued; `RequestInv` that an initial request is in one place and counted until its
reply is handled; `CacheInv` that the last reply in the inbox is the value in
the hardware.  `ImplementsLatestValue` maps every step to a step of the abstract
channel or a stutter.  Assumed: the properties are finite, and `Absent`, `Unset`
and `NaN` are no values (`PropertiesAssumption`, `SentinelAssumption`).

**`MonitorSystemProofs`**, for any number of displays, enumerations, addresses and
threads: `SysTypeCorrect`, `EveryMonitorHasOneOwner`,
`EveryListedMonitorIsReady`, `NoServerOutlivesPlatform`.  The first theorem is
`SystemUsesPool`: every step of the system is a step of `WorkerPool` or leaves it
alone, so that all that is proved of the pool holds here.  On top of the pool's
IInv there is what relates the handler the GUI thread is in to the
enumerators and owners: `CallInv` (which call into the pool a handler may be in),
`VictimsInv` (what is still to be destroyed), `EnumInv` (the pending count of an
enumerator is the number of its Monitors that are not ready), `OwnerInv`.

**`FutureChainProofs`**, for every length of the chain and every choice of the
callbacks that take errors, and also when futures made by `then()` are cancelled:
`TypeCorrect`, `DeliveryAssertions`, `ResultIsRight`, `PostsAreSafe`.  Whether a
delivery or a post is safe depends on what other threads can still do.
`SettledInv` and `GoneInv` say which states can still call their continuation,
and why a context that is gone keeps its parent from it: it was connected, and
so cancelled it.  `ValueInv` speaks of the whole chain behind a value, so that
no induction over the chain is needed when `get()` returns.
Assumed: `ChainAssumption`.

**`SettingProofs`**, for every set of devices and monitors, every scale and
any number of queued signals: `ShownStateIsCurrent`, `BrightnessIsOne`,
`ListensToTheDefault`, `CopyFollowsVolume`, `KnobMoves`.  The properties speak of
moments when no signal is queued; IInv says what a queued signal stands for:
without a queued "device" the control talks to the default device, without a
queued "volume" the copy is the device's state.  Both need that the handler is
registered at the control's device exactly while that is there, which no
property says.  Assumed: `LevelsAssumption`, `KnobAssumption` (snapping reaches
no further than a step), `DevicesAssumption`, `TargetsAssumption`.

**`DevicesProofs`**: the four parts share no variable, and each has its own
invariant.  `EveryPromiseIsKept`, for any number of promises: the
pending promises are the held ones, which needs that no two commands hold one
promise and none that of `start()`.  `EveryDeviceIsFound`, for any datagrams:
what was reported is what counts of what was read; that `WithLine`, folded over
the lines, finds the last line that counts is an induction over the lines, that
reports are in order one over the datagrams.  `EveryHandleIsOwned`, for any
topologies and numbers of overlapping enumerations: handles are counted, and the
list of an enumeration is made of what *it* saw.  `EveryWriteIsInRange`, for any
ranges, values, quotients and failures: what is cached has a range, so every write
goes through `Truncated` with one (`MonitorInv`), and `TruncatedIs` says what that
computes.  A quotient is a multiple of 1/den; rounding it, rounding the product and
rounding the sum move the result by less than half of that (`ErrorIs`), so
truncating can lose a step only where the product is at an integer (`StepsAre`), and
never gains one.  The powers of two are those up to 2^31, one by one (`PowerIs`).
Assumed:
`MaxPromisesAssumption`; `DatagramsAssumption`, `LowerCaseAssumption` and
`TargetAssumption` (what a datagram is, and that lower case is);
`TopologiesAssumption` (monitors have interface ids of their own, but for
malformed ones, displays have names of their own, and where the texts of the two
lists agree they mean one monitor); `ValuesAssumption` (ranges and denominators
are below 128: monitors report 0 to 100 as a rule, and `Exponent` and `Bits` are
those of floats only for such numbers).

**`QnobProofs`**, for any configuration files, command lines, screens, tables of
keys and number of events.
`NothingLeft` and the refinement `LoadingIsAtomic` follow from IInv, which says
at each `pc` what the main thread owns and what the pool holds: while the
loops of `loadEntities()` run, the pool and `loaded` are the built-in entities
and those *before* the index in the hash order (`PoolInv`); whatever is
registered or hidden is for an entity of the pool (`OwnedInv`), and while nobody
hides the native OSD it is not minimized (`HidingInv`): `clear()` undoes all
only because of both.  That `loadEntities()` fails only where the abstract
specification lets it needs `HotKeyInv`: a combination over which two hotkeys can
quarrel is held by one that was loaded.  `EverythingFits` needs DInv: the icons
and the cached size are as large as icons are *or* a message that says so is queued,
and every OSD is where its values of this moment place it.  `EventsArrive` needs
EInv: a registered hot key and a queued message belong to a hotkey with that
very trigger.  It also needs that the native keys of two triggers differ, which is
proved of the tables of `Keys`: codes within a table and the spans of the tables do
not meet (`OneKeyOfCode`).  `LogKeepsAll` needs LInv: which logger is
installed at each `pc`, and that it has what was logged, the buffer the latest
messages, the file what was buffered when it was opened and everything since.
That `Pushed` keeps the latest is an induction over the new messages, that the
file is the concatenation of all pieces one over its messages.

`HelpKeepsText` is about one step only, and about what `printSections()` computes in
it.  It rests on `TextIsKept`: of *any* text wrapped to *any* width no line is too
wide, every line goes on where the one before was broken, and nothing is lost but
a last part that `wrapText()` drops.  The loop of `wrapText()` goes from a pair, the
start of the line and the number of characters looked at, to the next, and from
a start that is at most one width behind it ends, though not from every pair:
`RecursionIsDefined` takes a measure, and an induction over the characters that are
left does the rest.  `PrintedIsReadable` adds that any options leave room for the
descriptions on a console of 40 columns or more.

Assumed: a configuration is finite (`ConfigsAssumption`), the first screen is
one (`ScreensAssumption`), a command line that is accepted names a configuration,
which may be one that cannot be read (`CommandLinesAssumption`), pressed keys are
keys that can be bound, with or without a key pad, and icons have a size
(`EventsAssumption`), messages have a number of lines (`MessagesAssumption`), there
are finitely many windows of the class that is searched (`WindowsAssumption`),
consoles have a width (`WidthsAssumption`), and the strings of the options have
lengths (`LengthsAssumption`, which the provers do not know of strings).

**`SequenceLemmas`** has what several proofs need of sequences.  The library's
induction cannot be used, since its theorems take an operator as a parameter.
`SetInduction` states induction of a *set* of numbers, and is proved by the
pigeonhole principle: were n the first number that is missing, adding 1 would
map the finite part of the set below n one-to-one into less than itself.

**Only model-checked**: all that is liveness, since the provers have no
`ENABLED` and no leads-to under fairness: `WaitTerminates`, `Initializes`,
`EnumerationDelivers`, `ShutdownCompletes`, `GetReturns`, `CancelReturns`, and the
fairness half of `ImplementsChannel`.  The four assumptions of `MCQnob` about pure
functions are evaluated by TLC; of those, `TextsAreKept` has a theorem of its own
(`TextIsKept`).  No module declares a RECURSIVE operator.

## 5. Not modelled

* `MonitorQueue::clear()`, `Osd::stop()` and `Osd::hide()`: nothing calls them.
* Stop tokens of futures (no use in the program), and the unfinished coroutine
  and `catch_error` interfaces.
* Painting (skins, `findFontPixelSize()`), tooltips, log texts, opacity values:
  what a picture looks like is in no property.
* Data races below the level of a step: `FutureResult` reads the data of a ready
  state without its mutex (`future_state.h:335`), the buffer logger has none and
  is in use while workers log (`buffer_logger.h:18`), and the logger is set to
  null before its message handler is taken away (`logger.cpp:19`).
* `HeosConnection` (used by nothing), `lib/upnp/upnp_discovery.*` (compiled
  out), sound output, shell and console functions, error texts.
* Assertions: the release build has none, so the models of `qnob` and `devices`
  go on where one would fail.
* `util/format.h`, `variant.h`, `exception.h`, `com_ptr.h`, scope guards: generic
  code without a state that a model could get wrong.

What can also go wrong there, and no property is about, for want of a document
that promises anything or because the program cannot get there:

* monitors: one that is listed after the brightness was set keeps its own
  (`brightness_setting_backend.cpp:40`); a failed write counts as done (`monitor_server.cpp:29`); an older
  enumeration may replace a newer one (`monitor_manager.cpp:30`); two servers of
  one display may write at once (`monitor.cpp:40`); the retry budget is for the
  life of a monitor (`win_monitor.cpp:120`, modelled), and the range is as old
  as the last read (`win_monitor.cpp:72`, modelled); a monitor that is exchanged
  between two lists gets the id of the other (`win_monitor_manager.cpp:79`);
* widgets: an OSD never asks for a state when it is connected (`osd.cpp:99`),
  and needs a primary screen (`osd.cpp:110`); an icon may be painted before its
  skin is loaded (`tray_icon.cpp:73`), and `setSetting()` disconnects the wrong
  one (`tray_icon.cpp:49`, never called twice); a text is fitted by the width
  of its box (`numeric_skin.h:49`);
* Windows: the cursor is read late (`win_wheel_event_manager.cpp:112`), an
  unsigned result is tested for being negative (`:97`), a killed process leaves
  the native OSD minimized (`win10.cpp:7`), `ComPtr` leaks when it is filled
  twice (`com_ptr.h:95`);
* network: a signal of the socket inside `flush()` or `connectToHost()`
  (`streaming_connection.cpp:27,83`) and a `send()` after an error, whose
  promise is set again by the next `stop()` although `promise.h:12` wants it set
  once (`:54`): both modelled, undefined from there on and excluded from
  `PromisesAreKept` by `risked`; a connection that is destroyed drops its promises
  (`streaming_connection.cpp:13`); `sendCommand()` never returns after an error
  (`heos_connection.cpp:33`); `start()` of the endpoint shadows its parameter
  (`upnp_discovery_endpoint.cpp:30`), and a receiver must not stop it (`:128`);
* others: `deleteLater` can be named as an action (`meta_object_extension.cpp:37`);
  the limit of 1 GiB is reported as 1 Mb (`qnob_config.cpp:57`); `PodPool`
  frees arrays by `delete` (`pod_pool.cpp:25`).

## 6. Plan

In order; each item names the hazards it is for.

1. `WorkerPool`, its proofs, `Monitor`, `LatestValue`, `MonitorSystem`: done.
   They are the only code that runs in several threads of the program proper.
2. `FutureChain`, `VolumeControl`, `Setting`: done.
3. `EntityConfig`, `Entities`, `Desktop`, `Keys`, `Logging`, `CommandLine` and
   `Qnob`: done (`entity_pool.cpp:54,56`, `win_shortcut_manager.cpp:74`,
   `command_line_parser.cpp:54`).
4. `StreamingConnection`, `UpnpDiscovery`, `WinMonitor`: done
   (`streaming_connection.cpp:54`, `win_monitor_manager.cpp:120`).
5. The assertion of `future_state.h:387`.
6. Theorems: done for every safety property of the runs.

Small components share a run where they have nothing to do with each other, as
the two backends of `Setting` and the parts of `Devices` do.
