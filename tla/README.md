# DCS_Shell: a TLA+ model and its proofs

DCS_Shell is the shell of a distributed control system: field-bus plugins read
registers, a parse thread turns them into engineering values and alarm reports, an
ISA-18.2 alarm engine decides what the operator is shown, a sampler archives
history.  This directory models that behaviour in TLA+, checks it with TLC on small
instances and proves part of it with TLAPS.

Contents: 1 inventory, 2 plan, 3 the modules and the code, 4 the runs, 5 bounds, 6
fairness, 7 proofs, 8 what is only model-checked, 9 what is not modelled, 10 where
code and documents disagree.

## 1. Inventory

### Threads

* **main thread** (Qt event loop): user interface, the operator's calls
  (`AlarmController`, `DataController`), and the engine's three timers: on-delay
  (500 ms), off-delay (500 ms), shelve tick (10 s);
* **parse thread** (`DataParseThread`): dequeues samples, writes the double buffer,
  calls `triggerAlarm` / `clearAlarm` for every sample;
* **history thread** (`HistorySampler`): samples the double buffer, archives;
* **one thread per Modbus device** (`ModbusComm`): connects, polls, enqueues
  samples, beats, writes, reconnects; everything of a device runs in the event loop
  of its thread.

### Components

| Component | State | Operations | Interacts with | What is hard | What makes it correct |
|---|---|---|---|---|---|
| Alarm engine (`AlarmEngine.cpp`) | active alarms, on-/off-delay entries, flood-suppressed tags and those being restored; three mutexes | trigger, clear, acknowledge, shelve, suppress, out of service and their inverses, three timer handlers | parse thread (calls), operator (calls), tag manager (configuration), repositories | timer handlers that take their locks several times while the parse thread runs; masks over masks; a batched restoration over many ticks | no violation unannounced, no mask without a way back, no state restored that is out of date |
| Flood detector (`FloodDetector.h`) | window, count, phase of the flood | `recordAlarm`, `endFlood`, `checkExpired` | called under the engine's lock | four time spans that lapse in any order | a flood ends, also when no alarm comes any more |
| Shelve manager (`ShelveManager.h`) | deadlines, automatic-shelve counts | `shelve`, `unshelve`, `checkExpired` | engine | deadlines handed to a caller that releases them later | every shelve with a time ends |
| Chattering guard (`ChatteringGuard.h`) | count per minute and tag | `check` | engine | a raise dropped as chattering | the violation is announced in the end |
| Suppression rules (`SuppressionEngine.h`) | rules, live values | `addRule`, `evaluate` | engine | rules change while a delay runs | a masked trigger raises nothing |
| Parse thread (`DataParseThread.cpp`) | address table, previous values | `processBatch`, `checkAlarmLimits` | ring buffer, double buffer, engine, tag manager | limits, deadbands, spikes; one sample makes several engine calls | the report is the state of the signal |
| Ring buffer (`LockFreeRingBuffer.h`) | slots with sequence numbers, two positions | `enqueue`, `dequeue`, `dequeueBatch` | device threads enqueue, parse thread dequeues | lock-free consumer, full and empty, wrap-around | FIFO, nothing lost or duplicated once accepted |
| Double buffer (`DoubleBuffer.h`) | write buffer, published snapshot, pool | `write`, `commit`, `readAll`, `readTag` | parse thread, pipeline, sampler, user interface | a snapshot per commit holds only what was written since the last one | readers see the last value of each tag |
| Data pipeline (`DataPipeline.cpp`) | wiring | `start`, `stop`, `writeSetPoint`, `writeOutput`, `setAutoMode` | all of the above, field bus | set points travel through the same buffer as measurements | what is written to the bus is what the operator set |
| History sampler (`HistorySampler.cpp`) | archive cache, ring of recent records per tag | sample, archive, query | double buffer, history repository | a batch that fails, a stop with a full cache | nothing archived twice; queries are ordered |
| Tag manager (`tagmanager.cpp`) | tags, index by name, index by address | add, update, remove, load | everybody | keys that change or collide | the indices agree with the tags |
| Modbus field bus (`plugins/fieldbus_modbus`) | connection, heartbeat failures, reconnect attempts, write queue | connect, poll, heartbeat, write, reconnect | ring buffer | reconnect while writes wait | writes put to the device in order and once, reconnect until connected |
| MQTT gateway (`plugins/mqtt_qt`) | two timers, attempts, noted subscriptions | connect, subscribe, publish, disconnect, reconnect, heartbeat | broker; created by the hub | losses at any time, wills that come late, a delay that doubles | subscriptions and status follow the connection; a loss is retried |
| Plugin hub (`infrastructure/plugin`) | descriptors, loaded plugins | scan, resolve, unload, switch | the builder, plugins | candidates that fail, a switch while the plugin is in use | libraries are accounted for, a service lives until it is let go |
| Persistence plugins (`plugins/persistence_*`) | one connection, its open transaction | `insertEvent`, `updateAck`, `insertKpiSnapshot`, `batchInsert` | engine (main thread), sampler (history thread) | two threads on one connection, refused statements, a silent reconnect | a batch is stored whole or not at all, and no transaction stays open |
| Change log (`alarmchangelog.cpp`) | the latest records, a file | `recordChange`, `approve`, `saveToFile`, `loadFromFile`; `setAlarmLimit`, `setAlarmPriority` of the engine | engine, tag manager; the host calls none of it yet | records dropped, rounded, made also for refused changes | the records of a limit tell one story, up to what the tag has now |
| Start and end (`main.cpp`, `ApplicationBuilder.h`, `AppContext.h`) | the owners of the services | the builder's steps; connect, disconnect, close | hub, pipeline, both threads | members destroyed while threads run; a stop that came too early | nothing is used after it was destroyed (not so for null objects, section 10) |
| State table (`AlarmStateMachine.h`) | - | `canTransition` | nobody but its tests | the engine has tests of its own | the engine makes no other change of state, or one knows which |
| KPI monitor, simulator's signals, user interface, logging, security | - | - | - | no decision reads them | - |

### How they interact

```
 device threads            parse thread                 main thread
 ModbusComm --enqueue--> ring buffer --dequeue--> DataParseThread
     ^                                             |        |  triggerAlarm / clearAlarm
     | writeRegister (posted)                write, commit  +-----> AlarmEngine <-- operator,
     |                                             v                              three timers
 DataPipeline <-- operator                   double buffer <-- writeSetPoint, setAutoMode
                                                   | readAll (history thread, user interface)
                                                   v
                                            HistorySampler --batchInsert--> history repository
```

Shared state: the engine's tables under its locks; the ring buffer without a lock on
the consumer's side; the double buffer without a lock for its readers; the tags
under a read-write lock.  Messages: calls posted to the event loop of a device
thread, and single-shot timers in it.

## 2. Plan

Modules in the order in which they were chosen, the most important behaviour first;
a module composes those on its right.

| Step | Modules | Composes | State |
|---|---|---|---|
| 1 | `AlarmEngine` | `FloodDetector`, `ShelveManager` | done, proved |
| 2 | `RingBuffer` implements `BoundedQueue` | | done, proved |
| 3 | `DoubleBuffer` implements `SnapshotStore` | | done, proved |
| 4 | `ModbusDevice` | | done, proved |
| 5 | `DataPipeline` | `DataParseThread`, `SnapshotStore` | done, proved |
| 6 | `TagManager`, `HistorySampler` | | done, proved |
| 7 | `AlarmPath` | `DataParseThread`, `AlarmEngine` | done, implements `AlarmEngine` (proved) |
| 8 | `MqttGateway` | | done, proved |
| 9 | `PluginHub` with the builder's steps | | done, proved |
| 10 | `Lifecycle` | | done, proved |
| 11 | `Persistence` | | done, proved |
| 12 | `ChangeLog` | | done, proved |
| 13 | `AlarmStateMachine` | | done, compared with `AlarmEngine` (proved) |

Step 7 asks what neither module can ask alone: what becomes of an alarm whose value
goes on to the next limit, and of the limits of the chain that come behind another
one.  Left of it: a deviation alarm within the limits is cleared and triggered by
each sample, and each trigger restarts the on-delay; the spike filter compares a
change between two polls with what is allowed in one loop of the thread, and so
freezes the value after a step.  Both are in the actions; no document says enough to
check them against.

Step 10 is the order in which `AppContext` lets go of its members while the threads
of the pipeline run.  The null objects, which have no other owner, go before the
pipeline whose threads and destructor use them: `exit_null` finds it.  Left of it:
the threads of the Modbus devices, which nothing ends.

Abstract specifications: `BoundedQueue` for the message bus, `SnapshotStore` for the
published values, and `AlarmEngine` for the engine behind the samples, all in use.

"Proved" in the table means: every safety property of the module that a run checks
is a theorem.  What is left to TLC is liveness (section 8).

Modules left: the KPI monitor, the rules of the suppression engine.

## 3. The modules and the code

An action is one critical section, one posted call or one access to shared memory,
whichever the other threads can tell apart.  Ghost variables are marked as such
where they are declared; they number things, bound an instance or are read by a
fairness condition, and decide nothing else.  A definition whose comment begins with
"Faulty variant" is not part of the model: it is the form the definition after it
would have with a plausible mistake, kept to show that the properties notice.

### AlarmEngine, with FloodDetector and ShelveManager

`FloodDetector` is the detector as a record of answers (count, phase), one operator
per method: time stamps are only compared with the clock to ask whether a span has
passed, so the model keeps the answer and an action lets each span pass.
`ShelveManager` is one record per tag (deadline, automatic, count, recently
released), one operator per method.  `AlarmEngine` EXTENDS both and adds the two
threads.  The timer handlers lock several times: they are sequences of actions whose
locals are in `main`, between which the parse thread may run.  The operator's calls
need the main thread and run only while no handler is between two sections.

| Variable | Code |
|---|---|
| `alarm[t]` | `m_activeAlarms`: state, limit, acknowledged, the shelved flag with its reason, the outOfService flag; state "Normal" is an absent entry |
| `onDelay[t]`, `offDelay[t]` | `m_onDelayEntries`, `m_offDelayEntries` and whether the delay has passed |
| `shelf[t]`, `chatter[t]`, `flood` | `m_shelveManager`, `m_chatteringGuard`, `m_floodDetector` |
| `floodSuppressed[t]`, `pending[t]`, `recoveryPending` | `m_floodSuppressedAlarms`, `m_pendingFloodRestoration`, `m_floodRecoveryPending` |
| `main` | the timer handler the main thread is in, and its local lists |
| `signal[t]` | ghost: the last report of the parse thread |

`TriggerAlarm`, `ClearAlarm`: the parse thread's calls.  `OnDelayScan`,
`OnDelayTake`, `OnDelayTimeout` (raise, or shelve as chattering): the on-delay
handler; `OffDelayScan`, `OffDelayRemove`, `OffDelayTimeout`: the off-delay one;
`ShelveTick`, `TickUnshelve`: the ten-second tick with the flood's end and one batch
of restorations.  `AcknowledgeAlarms`, `AcknowledgeReturns`, `ShelveAlarm`,
`UnshelveAlarm`, `SuppressByDesign`, `UnsuppressByDesign`, `SetOutOfService`,
`ReturnToService`: the operator.  `...Expires`: time.  The answer of the suppression
rules is a free choice of each trigger.

### AlarmStateMachine

`Successors` is the table of `canTransition`, state by state.  The engine does not
ask it, so no module of the model extends it; `AlarmEngineProofs` compares the two.

### RingBuffer and BoundedQueue

`sequence`, `data`, `enqueuePos`, `dequeuePos` are the members of the class;
`producer` and `consumer` are the program counters and locals of `enqueue` (under
its mutex, so there is one) and `dequeue`; `accepted`, `taken` what they returned
last.  `dequeueBatch` is `dequeue` again and again.  The acquire and release orders
make a slot's data visible with its sequence number, so the interleaving of the
accesses is what there is.  Positions have 64 bits and do not wrap in the life of a
process.  The refinement mapping takes the queue to be the samples from `First` to
`Beyond`: a slot belongs to the other side before the position moves.

### DoubleBuffer and SnapshotStore

`writeBuffer`, `pool`, `published` are the members; `content` and `alive` the heap;
`commit` and `reader[r]` where the threads are.  The reference count of a
`shared_ptr` is who holds the map.  A weak exchange may fail although the slot has
what it expects, so a commit may find no map in a pool that has one, and a returned
map may find no place.  There is one writer: the writes of the main thread into the
same map are unsynchronised with the parse thread, which is undefined in C++; the
models keep to executions in which they do not overlap.

### ModbusDevice

The flags, counts and queue of `ModbusComm`, with its single-shot timers as two
counts (`connectShots`, `retryShots`) and the calls posted to its thread as `fresh`
(the first connect) and `posted` (writes).  The ghost `offered` is the history of
the writes put to the device, which takes or refuses them: a refused one is dropped
by the code.  What the device answers is free.  No order between the heartbeat
interval and the reconnect delays is assumed.  Signals are left out: nothing in the
host is connected to them. `StopAll` posts nothing, because the meta object does not
know the method it names.

### TagManager

`tags` and the three hash tables.  Ids are not 0 (0 is the answer for a missing
key).  The packing of server and register into an address key is taken to be
injective, as it is for registers below 65536.  Ghosts: the keys that two tags had
at once.

### HistorySampler

`thread` and `batch` are the program counter and the local of the sampling thread,
`running`, `firstRecord`, `cache` and `recent` the members.  A record is the number
of the round that took it: rounds are an interval apart, and the clock is taken not
to go back.  `Start` and `Stop` are those of the main thread, which may come at any
time; `stop()` gives up waiting after three seconds, so it is no barrier.  The
ghosts `sampled` and `roundsOf` say how many rounds there were and which of them
found a tag: that is what the cache and the rings are compared with.

### DataParseThread and DataPipeline

`DataParseThread` has the pure part (conversion, spike filter, limit tests) as
operators and one action, `Accept`, for one register of a sample; `calls` lists the
engine calls in their order.  Engineering values are integers, the float rounded
down.  The range of a tag is not empty and its limits are not edited while it runs.
`DataPipeline` adds the operator's calls over a `SnapshotStore`, which stands for
the double buffer (`DoubleBufferIsSnapshotStore` is why that is allowed), and the
writes to the field bus.

### MqttGateway

`armed`, `delay`, `reconnectAttempt`, `beating` and `subscriptions` are the members
of the plugin; `client` is the state of `QMqttClient`, which is external like the
broker: `session` is what it delivers on the connection, `status` the retained
message, `wills` the connections whose loss it has not noticed.  Each slot and each
call is one action.  A return to "offline" runs `onDisconnected` in the same step,
as the signal is direct; so does `DisconnectFrom`, which therefore arms the timer it
has just stopped.  The delay is computed as the code does it: where the product fits
an int it is exact, beyond that it is one of the outcomes that matter, negative,
zero or the maximum.

### PluginHub

`discovered` and `loaded` are `m_discovered` (a set: the sort is not stable) and
`m_loaded`; `holders` is Qt's count of loaders per library, `content` whether a
library loads and holds what it declares.  `ScanAll`, `WithFieldbus`,
`WithDatabase`, `WithMqtt` are the steps of `main` and the builder, in their order;
after them `Resolve`, `UnloadPlugin`, `SwitchPlugin`, `UnloadAll` and another scan
come at will: the interface offers them, the host does not call them. `released`
marks the services whose plugin was asked to be unloaded.

### AlarmPath

The parse thread and the engine together.  `toCall` is where `processBatch` stands:
the tag it has come to and the calls that are left.  `TakeSample` is one register of
a sample (`Accept`), `CallEngine` the next call, `TriggerAlarm` or `ClearAlarm` with
the number of the limit in `enum class AlarmLimit`; `RestOfEngine` is the main
thread, between any two of them.  `checkAlarmLimits` reads the previous value of a
tag after `processBatch` has overwritten it: the edge test of the dead band compares
a value with itself and never applies (`Before`; see section 10).

### Persistence

The session that the plugin has at the database: `store` is what it sees, `saved`
what the others see while a transaction is `open`.  `write` is where `batchInsert`
stands, one action per statement; the main thread's `InsertEvent`, `UpdateAck` and
`InsertKpiSnapshot` come between any two of them, on the same connection.  The
engine calls `insertEvent` when it raises, `updateAck` in `acknowledgeAlarm` only,
and `insertKpiSnapshot` in the shelve tick.  Every statement may be refused and the
connection lost at any time (`Lose`): the client library opens a new session in
silence, which knows neither the transaction nor the prepared statement.  If the
reply to COMMIT is lost, either outcome is possible.  If the connection is lost
between BEGIN and the prepare, the batch is stored record by record; `cut` numbers
those batches and the property leaves them out.  The SQLite plugin uses no
transaction and passes over records that are refused (`BeginSqlite`, `RowSqlite`).
That two threads are in the client library at once is undefined and left out.
Methods whose bodies are empty in the code change nothing and have no action.

### ChangeLog

`changes` is `m_records`, `onDisk` the file, `parameter` what the tag manager holds.
`SetAlarmLimit` and `SetAlarmPriority` change the tag and record it, also when the
tag or the field is not known.  A record shows the value rounded to a tenth, a delay
is kept as an integer: `Shown` and `Whole`.  A load replaces the list; `own` is how
many records are of this life of the tags.  `approve` takes an index into the whole
list, which moves with each new record.  A save that could not be written is not
noticed.

### Lifecycle

The main thread as a sequence of steps, `todo`: start and stop of the pipeline, and
after the window is closed the members of `AppContext` and of `DataPipeline`, from
the last to the first, with what each destructor does.  `activity` and `goOn` are
the two threads and their `m_running`.  `servedBy` says whether a plugin or a null
object serves each service: the object of a plugin lives until the last of
`HubOwners` is gone, a null object until `AppContext` frees it.  A `wait(3000)` is
taken to outlast one pass of a thread that was told to stop, and to give up on one
that was not.  `stop()` ends the parse thread before the sampler and the field bus,
where `DataPipeline.h:47` lists them the other way round.  `InUse` is what a thread
or a destructor is about to use.

### Modules for TLC

`MCAlarmEngine`, `MCMasksAndBuffer`, `MCAlarmPath`, `MCDataPath` and `MCPlant`
choose instances.  Where parts that share nothing are asked in one run
(`MCMasksAndBuffer`, `MCAlarmPath`, `MCPlant`), a variable `question` chooses one of
them in the initial state: the states add up instead of multiplying.

## 4. Runs

| Run | States | Shows |
|---|---|---|
| `engine_masks_and_buffer` | 2 342 079 | Engine: one tag under every masking operation, and under floods, shelves, escalation and acknowledgement. No countdown without a violation; no mask without the flag its release tests; every timed shelve on the list of somebody who ends it; no Critical alarm hidden by a flood. Double buffer: a reader sees one commit, whole and unchanging; no map has two owners; maps do not pile up. |
| `engine_live` | 94 570 | Floods and timed shelves end, a lasting violation is announced, a lasting return is noticed. |
| `engine_path` | 187 692 | Two tags restored one per tick: once floods stop, every suppressed tag is released, whatever was suppressed, erased or raised again in between. And one tag behind its samples: a value that stays beyond HighHigh is shown as Critical, whether it raised a High alarm first, went on during the delay, or was taken by a flood or the chattering protection on the way. |
| `plant` | 201 166 | Ring buffer: a bounded queue for every interleaving of memory accesses; what is accepted is taken. Modbus device: one reconnect at a time; polled exactly while connected; given up after exactly twenty failures in a row; writes put to the device in order, each once (whether it takes them is its own affair); a lost connection is retried until it is back or given up. Gateway: what was subscribed is delivered while it is online; a late will is corrected; a loss is retried while the delay fits an int. Hub: no library stays or goes unnoticed, services live until they are let go, a switch wins against every priority. End: what is used after it was destroyed is at most a null object, no thread is destroyed while it runs. Tags and archive: indexes never lead to the wrong tag, also with colliding keys; the archive gets each round once and in order across restarts; the memory of recent records answers the latest ones. Data path: from a clear to the next raise a signal moves by more than the dead band; set points arrive at the bus and are never taken for something else. Database: a batch is stored whole or not at all. Change log: the records of a limit are one story. |
| `engine_release`, `engine_offdelay`, `engine_stale`, `modbus_stop`, `data_path_auto`, `mqtt_backoff`, `path_lowlow`, `exit_null` | - | Each finds a behaviour that a document of the repository excludes; see section 10. |

`PROJECT.json` lists for every property of a passing run a mutant of the code that
it catches.

## 5. Bounds and why they are enough

* **Engine.** No decision about a tag reads another tag except through the flood
  count, the batch of the tick and the handler's list.  One tag therefore shows the
  masks; two show the batches, with `BatchSize` 1 so that a restoration takes
  several ticks (5 in the code).  `FloodThreshold` 2 and `ChatterLimit` 2 or 3 (10
  and 3 in the code) are the least that let a flood and chattering build up, pass
  and build up again.  `Limits` are a Critical and a Major one: the engine compares
  limits by equality and severity only. `MaxAutoShelve` 2 reaches both sides of the
  extension limit.
* **Alarm path.** Registers within the limits, between High and HighHigh, and beyond
  both; both limits of one side switched on.  The set point is left out and the rate
  limit is as wide as the range, so that no spike is dropped and no deviation
  reported: those calls are listed among what is left.
* **Ring.** Capacity 4 and nine samples: two rounds of the slots and one more, so
  that a full and an empty buffer occur at every position.  Two different samples
  tell exchanged data apart.
* **Double buffer.** Two readers, so that either may be the last; `PoolSize` 1, so
  that the pool is empty, partly used and full; one map more than `MapsBounded`
  allows, so that the bound is the code's.  The address of a map means nothing: a
  new one gets the lowest that is free.  Two tags and one value: absent and present
  are what a stale entry would confuse.
* **Modbus.** The limits of the code, 3 and 20.  Four writes, so that a backlog
  meets a new write before and after a loss.
* **Gateway.** The settings of the code and twenty failures in a row, one more than
  the delay fits an int for; two topics, so that some are noted and some not; two
  wills that may both be late.
* **Hub.** Five libraries: one plugin for the field bus that the switched file beats
  anyway and one with a higher priority, the two repositories, of which either may
  be missing, and the gateway.  All contents of the first four.  At run time the
  field bus is replaced; up to five entries, so that a library is held twice.
* **Data path.** Three tags over two devices with two names and two addresses, so
  that keys must collide; rings of two records and four rounds, so that they go
  round; thresholds with a gap of one dead band, the range, the limits and every raw
  value enumerated, so that each is met from both sides; set points one beyond
  either end of the range; gaps of 0, 1 and 25 loops between samples.
* **Database.** Two batches of two records, so that the second can meet what the
  first left behind and a batch can be cut in the middle; any of the tables missing.
* **Change log.** Two records are kept and three changes or approvals made, so that
  the oldest is dropped; values that are rounded up and down.
* **End.** Connecting and disconnecting any number of times: the state space is
  finite without a bound.

## 6. Fairness

* The Qt event loop runs its timers again and again: strong fairness for the scans
  and the tick, which other handlers may precede; weak fairness for a handler that
  has begun.
* The parse thread evaluates every sample: it repeats its last word on a signal
  (`Resample`, weak).  The suppression rules must let it through for
  `ViolationAnnounced`: a rule that masks for ever announces nothing, by design.
* A span that has begun passes (weak).  A mature flood needs a time without alarms:
  it is certain only while no alarm opens another counting window (`FloodPhaseDue`).
* The parse thread polls the ring buffer (weak fairness of `Dequeue`).  The
  producers owe nothing.
* Behind its samples (`AnswerFairness`) the parse thread makes the calls it has to
  make and takes samples again and again (weak): polling does not end.  What they
  hold is free.
* The event loop of a device runs posted calls and due single shots, and its
  heartbeat comes again (weak).  No answer of the device is assumed.
* The reconnect timer and the heartbeat of the gateway run out (weak).  That a
  connection is ever accepted is not assumed.
* The sampling thread runs on and the archive interval passes (weak).
  `SampledIsArchived` assumes that the operator stops restarting it.

Nothing is assumed of the operator.

## 7. Proofs

All theorems hold for every value of the constants that the named assumptions allow;
these say that sets are finite where the code counts, that limits are positive and
that markers such as `NoTag` are not values.

* **`AlarmEngineProofs`** (`TypeCorrect`, `NothingPendingWithoutViolation`,
  `EveryMaskCanBeLeft`, `EveryShelveHasRelease`, `CriticalAlarmsShown`,
  `RecoveryAgrees`).  The inductive invariant `IInv` is the conjunction of the
  invariants and of two facts: an absent alarm is blank (else a new alarm would
  inherit a mask) and a handler in the middle of a tag has one.  None of the masks'
  invariants is inductive alone: a restoration writes a saved state into an alarm,
  so that the saved states must be unmasked ones (`TypeOK`), and the tick takes
  deadlines away, so that `ShelvedHasRelease` needs its list.  `AlarmsSound` gathers
  what is said of one alarm; one lemma per action, then `NextIInv`.
  `PathImplementsEngine`: every step of `AlarmPath` is a step of `AlarmEngine` or
  leaves it alone, so that the theorems above hold of the engine behind the samples
  (the six numbers of limits must be in `Limits`). Its invariant `CallsOK` says that
  the calls left are names of limits and `clear`, of a tag there is.
  `ProtectionsHoldBehindSamples` draws the conclusion.  `AlarmsMoveByTable` compares
  every change of an alarm with the table of `AlarmStateMachine.h`.  The engine
  leaves the table in four ways, which `OffTheTable` lists and which do occur: a
  mask over any present state, a returned alarm that its acknowledgement erases in
  the same section (the table goes by ReturnToNormalack, which nobody ever sees), an
  alarm that a flood takes in the section that raises it, and a recovery that gives
  back the state a flood saved as acknowledged.  All other changes are arrows of the
  table.
* **`RingBufferProofs`** (`RingBufferIsBoundedQueue`, `SizeIsNearlyRight`).
  `SlotsInTurn`: from the first sample on, one round of positions, the filled slots
  first, then the free ones.  `SidesOwnTheirSlot`: who has passed its test owns its
  slot until it hands it over.  The key lemma is that positions less than a round
  apart do not share a slot.  Each step then maps to a step of `BoundedQueue` or to
  a stutter.
* **`DoubleBufferProofs`** (`MapsAreOwned`, `DoubleBufferIsSnapshotStore`,
  `SnapshotsDoNotChange`, `MapsDoNotPileUp`).  With the types, `MapsHaveOneOwner` is
  inductive: the map that a commit fills or a deleter clears is seen by nobody else.
  So what a reader holds does not change, and the published map is what was written.
  `SnapshotsDoNotChange` says the former of the double buffer itself: as long as a
  reader looks, no step of anybody alters what it sees.  `MapsBounded` counts, and a
  count alone is not inductive: `BoundInv` says where each map is (in the pool,
  published, with the commit or with a reader: none is forgotten) and that the pool
  keeps to its size.
* **`ModbusDeviceProofs`** (`NeverTwoReconnects`, `PollingFollowsConnection`,
  `GivenUpInTime`, `WritesKeepOrder`).  The three about the connection are proved
  together, with `Counting`, which relates the attempts, the failures and the shots
  under way.
* **`PluginProofs`** (`SubscriptionsSurvive`, `TimersFollow`, `SwitchIsFinal`,
  `NothingStaysLoaded`, `ServicesOutliveOthers`, `ThreadsEndBeforeTheyGo`,
  `OnlyNullUsedAfterItsEnd`, `PluginsLastToTheEnd`).  The two of the gateway are
  inductive as they stand. For the third, what can be chosen depends on what the
  libraries hold, so the induction is over `OnlySwitched`: after a switch no
  descriptor leads elsewhere, working or not.  `LoadedInv` is for the next two: the
  count of every library is that of its entries, and behind a service that nobody
  asked to be unloaded there is an entry of its own, so that what the others give
  back cannot be the last. Liveness of a library alone would not be inductive:
  another service may hold it. Those of the end share `EndInv`.  Once the window is
  closed, what is left to do is the end of one list of twenty steps (`Ending`), so
  that what has been destroyed is known from how many are done; `Stopping` follows
  each thread along the list. The crux is a thread that sets `m_running` after the
  first order to stop: after the first wait it has done so for the last time, the
  second order reaches it, and it has gone before its object is destroyed.  What is
  left over are the null objects, and they do dangle (`exit_null`):
  `OnlyNullUsedAfterItsEnd` says that nothing else does, `PluginsLastToTheEnd` that
  nothing at all does where every service has a plugin.  With the persistence
  plugins that are in the repository the two repositories never have one (section
  10).
* **`TagManagerProofs`** (`IndexesNeverLie`, `TagsAreFound`, `DevicesListTheirTags`,
  `LimitsKeepTheirStory`).  Inductive with the types; the second needs the first,
  because an entry that led elsewhere would be cleared with somebody else's tag. The
  lists of the devices are exact only together with being free of repetitions: a
  removal takes out one occurrence. `LimitsKeepTheirStory` is about the change log:
  with the types, `ChangesChained` is inductive. `StoryGoesOn` is its key: a new
  record moves the others on by one place, so two records of a limit follow each
  other after it if they did before, or if one of them is the new one.
* **`HistorySamplerProofs`** (`RoundsArchivedInOrder`, `MemoryIsLatest`,
  `BatchesAreTransactions`).  Only a thread at the insertion has a batch in hand, so
  taking the cache overwrites none.  `RingInv` says of each ring where every record
  is: the head is the number of records so far modulo the size, and the i-th of
  them, if it is among the last ones, is at place i - 1 modulo the size. The answers
  alone say nothing of the place where the next record goes, so `RecentIsLatest` is
  not inductive; the key lemma is that two places less than a turn apart differ.
  `TransactionInv` says of the batch under way what is in the session and what is
  durable: inside its transaction the records inserted so far and none; after the
  transaction was lost neither can grow, because the statement is no longer
  prepared.
* **`DataPipelineProofs`** (`DeadbandHolds`, `AutoSendsSetPoints`,
  `SetPointsReadBack`).  `BandInv` says that the last clear of a tag came beyond the
  dead band of each of its limits and a raise beyond it on the other side (the code
  gives twice the dead band, the property asks for once, which would still hold if
  crossings were seen), `SetPointInv` says that both halves of the buffer hold set
  points that were asked for; the third is arithmetic: a scaled set point fits its
  register, and division there and back loses less than one.

## 8. What is only model-checked

* Liveness under fairness, which is out of the prover's reach: `SuppressedReleased`,
  `FloodEnds`, `TimedShelveEnds`, `ViolationAnnounced`, `ReturnNoticed`,
  `EverySampleTaken`, `LostIsRetried`, `OnlineIsShown`, `LossIsRetried`,
  `SampledIsArchived`, `HighHighShown`.
* The eight runs that find a violation.

## 9. What is not modelled

* Annotations of an alarm, its event history, the sounds, the key figures: nothing
  the engine decides reads them.  The edits of limits (`ChangeLog`) are not composed
  with the parse thread: the host does not call them.
* The rule table of the suppression engine (its answer is free).
* Overlapping writes of parse and main thread into the write buffer (undefined
  behaviour, see section 3), the address table of the parse thread, the enabling
  flags other than those of the four limits, tags without a valid range.
* `removeDevice` and the destructors of the field bus, single register formats.
* The contents of the rows, the tag repository and the queries of the persistence
  plugins, but for what a query can see; the signals of the simulated bus (a random
  generator); of the user interface all but connect, disconnect and close; logging,
  audit, ciphers; of start-up what does not ask the hub.
* `publish` and the forwarding of messages by the gateway, its TLS settings.
* At the end of the application the threads of the Modbus devices (nothing ends
  them).
* Whether a device takes a write, and the signal that tells it (nothing listens).

## 10. Where code and documents disagree

| Run | The code | The document |
|---|---|---|
| `engine_release` | `unshelveAlarm` asks whether the alarm is active while its state is still Shelved: it comes back as returned to normal, also while the signal violates its limit | `AlarmController.cpp:31`: unshelving restores the original state |
| `engine_offdelay` | a violation during the off-delay leaves the entry in place, which later clears the alarm | `user-manual.md:291`: cleared only after the signal has stayed normal |
| `engine_stale` | a tag unshelved during a batched restoration stays on its list and is restored again: the new alarm shows as acknowledged | `AlarmEvent.h:104`: acknowledged says whether the operator did |
| `modbus_stop` | `stopAll` names a method the meta object does not know: polling goes on | `DataPipeline.h:47`: stop stops everything, the field bus included |
| `data_path_auto` | switching to automatic sends the set point of the last snapshot, usually the default 0 | `DataPipeline.cpp:118`: sends the current set point |
| `mqtt_backoff` | `base * (1 << attempt)` overflows at attempt 19, before it is limited: the timer gets a negative interval and does not start, the gateway stays offline after about a quarter of an hour without broker | `QtMqttPlugin.cpp:163`: base * 2^attempt, at most max |
| `path_lowlow` | the chain tests Low before LowLow, and a value beyond LowLow is beyond Low as well: the alarm stays a Major one for ever | `DataParseThread.cpp:154`: from the highest priority to the lowest; `user-manual.md:282`: LowLow is Critical |
| `exit_null` | the null objects have no owner but `AppContext`, which destroys them before the pipeline (`AppContext.h:21-24`): the sampler may archive into the freed history repository, and `~DataPipeline` calls `stopAll` of the freed field bus (`DataPipeline.cpp:19,53`) | `user-manual.md:243`: without a valid plugin a null implementation is injected and the system does not crash |

Met while modelling, without a run of their own: the persistence plugins declare
`com.dcsshell.SqlitePersistence` and `com.dcsshell.MysqlPersistence`, while the
builder asks for the identifiers of the repositories (`ApplicationBuilder.h:71-72`),
so that the null repositories are always used; `m_prevValues` is overwritten
(`DataParseThread.cpp:105`) before `checkAlarmLimits` reads it (line 152), so that
the crossing of a limit inside its dead band is never reported, although
`DeadbandFilter.h:9,12` tests for it, `DataParseThread.h:53,67` say that the value
is compared with the one before, and `tests/unit/test_deadband_filter.cpp:10-16`
expects the alarm; `switchPlugin` loads nothing, although the manual
(`user-manual.md:247-251`) says it loads and registers the new plugin;
`setDoubleBuffer` of the engine has no caller, so that a suppression rule with a
condition has no data to evaluate; `disconnectFrom` starts the reconnect timer
again; `acknowledgeAll` and `acknowledgeAlarmByTagId` write no acknowledgement to
the repository and none to the audit log, as `acknowledgeAlarm` does; a batch the
database refuses is counted as archived, because the plugins report nothing
(`HistorySampler.cpp:88`); `saveToFile` of the change log does not notice that it
could not write, and leaves out `validUntil`; the first connect of a Modbus device
that fails is never repeated; writes that found no connection wait for the next
write, also when the device is back, and one that the device refuses is not
repeated; a deviation or rate-of-change alarm replaces the limit of a HighHigh
alarm, because it has a higher number, and makes it a Major one.
