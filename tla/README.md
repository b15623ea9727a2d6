# Verification of goxo

TLA+ models of [goxo](../src/README.md), the engine that runs an OXO agent: it
consumes messages from RabbitMQ, hands each to a long-lived handler process over
pipes, relays the handler's emits and settles the message. The modules are
checked with TLC on small instances and the main theorems are proved with TLAPS
for every value of the constants. Paths below are relative to `src/`, and
`worker.go` stands for `internal/worker/worker.go`, and so on.

## The system

| Component | State | Operations | Talks to |
| --- | --- | --- | --- |
| worker (`worker.go`) | current process, in-flight map, next id, closing flag, queue of notes | `run`, `spawn`, `readLoop`, `writeLoop`, `Dispatch`, `armTimeout`, `beginClose`, `kill` | handler over two pipes; bus through callbacks and `Publisher` |
| pool (`pool.go`) | the fixed set of workers | `Start`, `Dispatch`/`leastLoaded`, `Shutdown` | workers, one lock at a time |
| engine (`engine.go`, `admit.go`, `engine/config.go`) | run context, limits | `Run`, `handle`, `admit` | bus, pool |
| bus (`bus.go`, `control.go`) | one AMQP channel under `chMu` | `setup`, `Consume`, `dispatch`, `ack`/`nack`/`requeue`, `Publish`, `Close` | broker, codec |
| note (`note.go`, `wire.go`) | none (a buffered reader) | frames and notes | worker, handler |
| codec, settings, manifest, config | none after start-up | decode, encode, overlay | engine, bus |
| health, `cmd/healthcheck`, `main.go` | a listener | answer OK; start `Run` | container runtime |
| handler (not in the repository) | the messages it has in hand | pickup, emit, done, exit | worker |

One goroutine (`engine.Run`) consumes, admits and dispatches. Every worker has a
supervisor goroutine (spawn, read, reap, settle what is left, respawn), every
process a writer goroutine that owns stdin, every message a timer. They meet in
`w.mu`/`w.cond`, the channels `out` and `stop` of a process, the pipes, and the
callbacks `Ack`, `Nack`, `Requeue`.

What makes this hard: four parties may settle one message (done, timer, reap, a
failed send); calls are made after `w.mu` is released; a `Dispatch` that released
the lock comes back with an id; processes die and are replaced with notes of
theirs in three places; reader, writer and handler form a cycle of bounded
buffers; shutdown meets workers in any state, including without a process; and
engines that share no state must together keep a scan finite. `PROJECT.json`
lists each of these hazards with its line and the properties for it.

What correctness means, per component:

- **worker**: a delivery is settled exactly once by its owner; what is dropped,
  requeued and published is what the code says; nothing is left behind by a dead
  process; no goroutine waits for ever.
- **pool**: the chosen worker has room; `Shutdown` returns, with nothing in flight.
- **engine/admission/bus**: no chain passes a limit; a scan ends; the broker's
  window fits the pool; every message the broker delivered is settled or returned.
- **engine and bus over several lives**: no message leaves the queue without a
  verdict on it, none is settled twice on one channel, whatever is opened is
  closed, and a stop in good order hands back only what no handler has seen.
- **note**: what is written is what is read, in order, however the pipe cuts it.
- **settings/config/manifest/main**: later sources win, defaults fill in.
- **health, healthcheck**: the server is open as long as the pool works, and the
  probe then succeeds if it asks where the server was told to listen.

## Modules

| Module | Models |
| --- | --- |
| `Handler` | the process of each worker and its two pipes (external: from the notes and from the fake handler of `worker_test.go`) |
| `Worker` | all of `worker.go`, any number of workers, extends `Handler` |
| `Settlement` | the contract of `Delivery` and `Dispatch`, with no worker in sight |
| `Pool` | `pool.go` as `engine.Run` drives it, extends `Worker` |
| `PoolContract` | what `engine.Run` may rely on in its pool: `Settlement` with its circumstances, and `Shutdown` |
| `Scan` | several engines on one exchange: `admit`, routing, chains, requeue |
| `Config` | what `main.go`, `config.go`, `settings.go`, `manifest.go` and `engine/config.go` compute before anything is opened |
| `Engine` | one container over several lives: `Run`, `bus.go`, `health.go` against the broker; extends `Config`, and `Settlement` in place of the pool |
| `Mailbox` | what queue and engine promise: the abstract specification of `Engine` |
| `Wire` | `WriteFrame` and `Reader.Read` byte by byte through a pipe |
| `NotePipe` | a pipe of whole notes: the abstract specification of `Wire`, and what `Handler` and `Worker` use |
| `MCWorker`, `MCPool`, `MCScan`, `MCEngine`, `MCWire` | the instances TLC checks |
| `WorkerProofs`, `ContractProofs`, `HistoryProofs` | theorems about `Worker` and `Handler` |
| `PoolProofs`, `ScanProofs`, `EngineProofs`, `QueueProofs`, `WireProofs` | theorems about the module of that name; `QueueProofs` is about `Engine` too |

### State and actions of Worker

`msgs[w]` is `w.msgs` (id to delivery and `picked`), `live[w]` is `w.cur # nil`,
`gen[w]` numbers the `proc` objects, `out[w]` and `stop[w]` are the channels of
the newest one, `sup[w]` is where the supervisor is in `run`. `caller` is the one
goroutine inside `Dispatch`. A goroutine that deleted a map entry under the lock
and has yet to call the callback is a record in `owed`; `calls[d]` is the history
of callbacks. Ids, chains and payloads are reduced to the delivery they belong
to, so "the right chain" is `chain = d`.

One action is one critical section of `w.mu`, one channel operation or one pipe
operation. The following are merged, each because nothing can tell the
difference:

- `onEmit`'s lookup, publish and `ackEmit`: only the reader touches these between
  the lookup and the answer, except that the entry may be deleted meanwhile, which
  gives the same outcome as the lookup coming first.
- A failing `send` and the reclaim under the lock: `stop` and the end of the
  context are never undone, so the reclaim may be taken as the moment of failure.
- The writer's receive from `out` and its write: a writer blocked in a full pipe
  keeps its note at the head of `out` in the model. `out` is then one note
  shorter than the channel plus the writer's hand, so the model blocks and drops
  a note earlier than the code does, with the same kinds of outcome.
- `beginClose`'s critical section and `requestStop`: no step of another goroutine
  depends on `stop` being still open.
- The handler's taking of a note and its pickup note.

A `Dispatch` may hold a `proc` that has been replaced (`caller.p # gen[w]`). A
note sent there is never read; its entry went with the old map.

`BadNote` stands for whatever makes `Reader.Read` fail while the process lives: a
malformed or oversized frame, an unexpected type, stdout closed early. `Oversize`
are deliveries whose note `WriteFrame` refuses. An emit is made by a message in
hand; whether it names that message is the handler's choice if `Careless` is TRUE
(`Emit.Deliver` may be left out, `note.go:74-82`), and `published` records which it
was (`named`).

`spawn` may fail in three ways: no process starts; the process dies before its init
note is written; or the note cannot be written although the process lives
(`InitFails`, if `InitRefused` is TRUE), which closes its stdin and leaves the
supervisor in `io.Copy` until the process ends of its own accord
(`worker.go:258-268`). An init write that blocks because the handler does not read,
and the pipe is too small for the note, is not modelled: `spawn` writes it with no
timeout.

### State and actions of Pool

`main` is the goroutine of `engine.Run`: in the consume select, in `leastLoaded`
(one worker's load per step, as the code takes one lock per worker), in the loops
of `Shutdown`. `Receive` and `LookAt` replace the free choice `Worker` makes of
the worker, and `CloseWorker`, `KillWorker` fix when `beginClose` and `kill` run.
The broker has at most `Prefetch` deliveries unsettled.

`KeepsReception` is the refinement of `PoolContract`: the deliveries as in
`Settlement`, `stage` for the engine's goroutine, and `lost` once a fault has
happened. Its steps are the operators `Engine` composes with (`RefuseOffer`,
`TakeOffer`, `SettleTaken`, `SlotFree`), so what `Engine` assumes of the pool is
what `Pool` does.

### State and actions of Scan

`queue[a]` is the broker's queue of agent `a`, `slot[a]` the messages its pool has
in flight (each settled once: that is what `Settlement` promises and
`ContractKept` proves), `stray[a]` the emits still to come for no message in flight:
those of messages that timed out (`Timed` are the agents whose engine has a
timeout), and those a handler makes on its own account. `Careless` are the agents
whose handlers emit without naming a message, the one they work on (`EmitUnnamed`)
or none (`stray` from the start); `onEmit` gives such an emit no chain, as it does
one that names an id it does not know. A selector is a sequence of words; a routing key has the message id
appended, a binding is a prefix, and the consumer strips the id. The message that
starts a scan, and OXO agents that are not goxo, are external.

### Config, and state and actions of Engine

A *world* is all a container is started with: settings, definition, `goxo.yaml`,
environment, each the record of the fields present in it, `Unset` or `Bad`.
`Config` computes from it what `main.run` and the top of `engine.Run` compute:
`Params` (environment over file over default, with each layer's own idea of
absent), `HandlerArgs`, `BusInputs`, `Window` (the 16 bits that reach
`basic.qos`), `Capacity` (the clamps of `NewPool`), and whether `Run` gets as far
as dialling, and whether the healthcheck command reaches the address the server is
told to listen on (`ProbeReaches`: the command always asks 127.0.0.1, at the port of
the environment; the engine listens on the host and port of the settings). Text is
reduced to words, numbers that do not parse to `Bad`.

`pc` is where `Run` is: each step of `Connect`, `Serve`, the pool's start,
`basic.consume`, the select, a blocked `Dispatch`, and the unwinding of `defers`,
the stack of deferred calls. `open` is what the process holds. Below it is the
broker: `frames` is what was written to the channel and not handled yet (settle
calls and publishes of all goroutines, in the order `chMu` gave them), `unacked`
what the broker waits to hear about, `buffer` what the client library holds for
the consume loop. A delivery is an AMQP delivery, so a message carried twice is
two members of `Deliveries`, joined by `carried`; `kind` says what becomes of a
message when it is received (undecodable, rejected by `admit`, or for the pool).
The pool is its contract: `Settlement`'s `Offer`, `TakeOffer`, `RefuseOffer` and
`SettleTaken`, which `ReceptionKept` proves of `Pool`, with the slots of
`Config!Capacity`. A free slot is asked for only where the window fits the
capacity: `onDone`, the timer and the reap free the slot before they call back, so
a pool with a wider window has taken more than it has slots for a moment.

Steps that fail (`StartFails`), signals, crashes of the process, channels closed
by the broker, lost handler processes and a health server whose accept loop fails
(`ServeStops`, which the code only logs) are faults, at any point. After each end
of the process the runtime restarts it, with one of the worlds of the scenario: the
settings, the files and the environment may have changed. `told` collects the inputs
the handlers of all lives so far were told of. What is taken from the client library and
the broker: frames of a channel are handled in order; a channel the broker closed
yields what the library still holds or its end, and drops later writes; `Close`
waits for the frames before it; a durable queue keeps its bindings and gets back
what a channel had not settled; the next life starts when the broker has noticed
the end of the last.

`KeepsQueue` is the refinement of `Mailbox`: a message is absent, waiting, held,
acked or dropped, it leaves only by a verdict some consumer has given on this
message, and never comes back. The mapping computes a message's place from the
deliveries that carried it.

### State and actions of Wire

`stream` is all bytes ever written, `taken` how many of them are read; the pipe is
what lies between and holds `Room` bytes. The writer is in the middle of `frame`,
the reader has `part` of a header or body. Bytes have `Base` values, so that a
body byte read as a header is a length, and lengths above `MaxFrameSize` exist.
A header is four bytes, written out as `PutUint32` does and read as `Uint32` does;
`WireAssumption` says that `MaxFrameSize` has room in them, as 64 MiB has in 32 bits.
The JSON of a note is an uninterpreted body, `Legible` or not. `KeepsNotes` is the
refinement of `NotePipe`, which is why `Handler` may treat the pipes as queues of
whole notes: `pipe` is mapped to the notes sent and not returned, a write to one
`WriteNote` when its last byte goes in, a read to one `ReadNote` when the last byte
comes out. The handler's own end is external and assumed to frame as
`WriteFrame` does.

## What is checked

| Run | Checks | Shows |
| --- | --- | --- |
| `worker_races` | `TypeOK` `OneOwner` `CallerGate` `NothingStranded` `RequeueUnprocessed` `EmitKeepsChain` `KeepsContract` `TakenIsSettled` | one process, cap 2, two messages, timeouts, a crash or a refused init note, an emit that names its message or none, cancellation and close, in every order; whatever the handler does, a message taken is settled |
| `worker_quota` | `NoAckLost` `SendHasRoom` `HandlerWithinCap` | cap+1 notes are enough without timeouts, unreadable frames included |
| `worker_cooperative` | `TakenIsSettled` `DispatchReturns` | without timeouts, a handler that makes progress, floods its stdout and reads only between messages: the bounded pipes and queue block nobody for ever |
| `pool_safety` | `PoolTypeOK` `OneOwner` `PickHasRoom` `DrainedAtReturn` `KeepsReception` | two workers, three messages, a crash, no timeouts; the pool is what `Engine` takes it for |
| `pool_shutdown` | `ShutdownReturns` `CancelStops` | handlers may hang, and one may write a frame that ends the reading while its process runs on; the grace ends while every worker has a process or is stopped |
| `scan` | `ScanTypeOK` `ChainsWithinLimits` `ScanEnds` | two loops through the one agent with a cyclic limit, a depth limit and an accepted sender on another, one undecodable selector, a redelivery, late and unnamed emits of a third agent off the loops |
| `engine` | `EngineTypeOK` `NeverBreaksChannel` `AckedAfterEmits` `OfferFits` `NothingLeaks` `HealthyWhileWorking` `BoundAsBriefed` `LayersOverlay` `KeepsQueue` `CleanExit` `EventuallySettled` | one or two messages of every kind, one or two faults anywhere, pools of capacity one and two, with and without a timeout; a container restarted with other inputs; and some fifty worlds with nothing to consume, one for each way a knob or an argument can be given or spoilt |
| `wire` | `WireTypeOK` `InSync` `NothingSkipped` `TornIsNoticed` `WrittenIsRead` `KeepsNotes` | four frames of several lengths, one unreadable and one too large, through a pipe of three bytes, with a writer that dies anywhere and two stray bytes |

Each property's comment in the module says what it means and which lines it is
about. In the action-level model a message "taken" is one whose `Dispatch` will
return true.

### Where the code differs from what it says

Each of these runs checks one statement of the source, and TLC finds a behaviour
of the code that breaks it. `PROJECT.json` quotes the statement.

| Run | Behaviour |
| --- | --- |
| `pool_shutdown_grace` | the grace ends between two processes of a worker: `kill` has nothing to kill, the next process is never told to stop, `Shutdown` never returns |
| `pool_hung_handler` | timeouts free the slots of a handler that stopped reading; the queue fills and `Dispatch` blocks in `send` |
| `worker_oversize` | a deliver note `WriteFrame` refuses is only logged: never settled without a timeout |
| `wire_torn` | a handler that dies between the header and the body of a frame: the second `io.ReadFull` returns `io.EOF`, `ReadFrame` passes it on, and `readLoop` ends without its warning |

Further behaviour of the code that the passing runs set aside, by a constant or in
the statement of the property, and that a reader should know:

- A handler that emits without waiting loses an `emit_ack` once the queue is full
  (`ackEmit` drops it), and a message may be registered while the queue has no room
  for its note. `NoAckLost` and `SendHasRoom` are checked with `SyncEmits` and
  without timeouts; the fake handler of `worker_test.go` does not wait. Under these
  conditions a queue of cap notes would be enough; cap+1 leaves one to spare.
- An emit that names no message, or one whose slot a timeout has freed, has no chain
  (`worker.go:335-348`, `note.go:74-82`): it is published as if this agent had
  started the scan, and no limit knows what came before. If the agents on a loop emit
  so, no cyclic or depth limit ends the loop. `ScanEnds` is stated for loops on which
  every emit names a message in flight.
- `Shutdown`'s comment says that messages a killed worker never finished "are nacked
  (dropped)" (`pool.go:68-69`), and `run`'s that it "nacks any message still in
  flight" (`worker.go:162-163`). The reap nacks those that were picked up and
  requeues the rest (`worker.go:207-219`).
- A process whose init note could not be written is waited for, not killed: `w.cur`
  is not set yet, so neither `beginClose` nor `kill` reaches it, and if it neither
  reads its EOF nor exits, the worker stays in `spawn` and `Shutdown` waits for it
  (`InitRefused` is FALSE in the shutdown runs).
- After a frame it cannot read, `readLoop` leaves the rest of stdout unread: a
  pickup behind it is missed and its message requeued though it was run
  (`RequeueUnprocessed` is checked with readable frames). And a handler that then
  goes on writing fills its stdout and blocks, so that `cmd.Wait` (`worker.go:197`)
  and the worker wait for ever, though a comment says "it has exited or is exiting"
  (`worker.go:191`): without a timeout its message is not settled before the engine
  stops (`TakenIsSettled` of `worker_cooperative` fails with `BadFrames` TRUE).
  Shutdown ends it all the same (`pool_shutdown`).
- `Shutdown` waits for the supervisors, not for a timer goroutine that has taken
  a message and not yet called `Nack` (`DrainedAtReturn` is checked without
  timeouts).
- `Dispatch` waits for the least-loaded worker even if that one has no process and
  another could take the message.
- `cmd/healthcheck` asks the port of `HEALTHCHECK_PORT`, which its comment calls
  "the port the engine serves on" (`cmd/healthcheck/main.go:6`); the engine serves
  on the port of the settings. And it asks 127.0.0.1 (`cmd/healthcheck/main.go:17`),
  while the engine listens on the host of the settings (`engine.go:148-160`). Where
  the two do not meet every probe fails, and so it does after the accept loop has
  failed, which is only logged (`health.go:46-50`), however well the pool works.
  `HealthyWhileWorking` states both conditions.
- The queue is durable and `setup` only adds bindings (`bus.go:108-123`): a container
  started again with other inputs still receives what it was bound to before, which
  its handlers are no longer told of. `BoundAsBriefed` says that it is bound to all
  they are told of, and to nothing that no life's handlers were told of.
- `busConfig` says the broker "never delivers more than the pool can hold"
  (`engine/config.go:39-40`). The product of two negative sizes is a window the
  pool, which clamps each, does not have room for; a product of 65536 or a
  multiple is 0 in `basic.qos`, no limit. `OfferFits` states the condition.
- A message whose timer fires during `Shutdown` may lose its nack to the closing
  bus and be run again (`CleanExit` is stated of an engine without a timeout).
- A malformed number in the environment is passed over silently, in the file it is
  an error; 0 for a size is absent in the file and a value in the environment; a
  `GOXO_HANDLER` of blanks overrides the file's command with none.
- `Connect`'s comment still speaks of "a prefetch of one" (`bus.go:70-71`).

The README of the repository also describes an earlier design (a process per
message, a start phase, protocol 1); the code keeps one process per worker and
speaks protocol 2, and the models follow the code.

### Bounds

`Deliveries` is a set of one to four, each offered once, so a requeued message is
not offered again (redelivery is in `Engine` and `Scan`). `MaxFaults` bounds crashes, failed
spawns, repeated dones and unreadable frames together, `MaxEmits` the emits,
`PipeCap` the notes a pipe holds. One fault is enough for each race, because a
fault only ever concerns one process and the next is fresh; two messages are
enough for one slot to be freed and reused while something of the first is still
about; a third (`worker_quota`, `pool_safety`) fills cap and queue. A pipe of one
or two notes blocks where a real one would block later. In `Scan`, `EmitsEach`,
`MaxReturns` and `MaxStray` bound emits per message, redeliveries, and emits
outstanding for no message in flight, one each; chains are bounded by the limits
themselves.
In `Engine`, a scenario is a world, the kinds of the messages there are and a
number of faults: two for one message, one for two messages of all kinds, two for
two good messages through one slot, two for one message of a container that changes
between two sets of inputs. Six delivery tags are more than the faults can
use up, or `EventuallySettled` would fail for want of one; `MaxEmits` is one,
since one emit is enough to arrive late. In `Wire`, three bytes of room are less
than a header, `Base` 2 makes every body a possible header, and two stray bytes
put header and body out of step. `SyncEmits` tells handlers that wait for each `emit_ack` from those that do not;
`GraceCoversSpawn` is the assumption `pool_shutdown_grace` drops. `Careless` is TRUE
where the chain of an emit is the subject (`worker_races`), `InitRefused` in every
passing run of workers and pools but `pool_shutdown`. Messages (and
workers, in `Worker` only) are interchangeable; symmetry is used only in runs
without liveness.

### Fairness

`EngineFairness` is weak fairness of each goroutine: the Go scheduler runs every
runnable goroutine, and timers fire. `CallerStep`, one supervisor, one writer, the
timers of one worker and the settle calls each count as one. Nothing is assumed of
a handler except in `CooperativeSpec`, whose handlers read when they have nothing
to run, finish what they run, and exit (`HandlerProgress`). `FairPoolSpec` adds the
engine's goroutine and the end of the grace, but not that the consume loop is ever
left: only `CtxCancel` forces that. In `Scan` engines consume and handlers finish
their messages. In `Engine`, `Run`'s goroutine and the broker go on, and two
assumptions about the pool have names: `PoolGoesOn`, that it settles what it takes
(`TakenIsSettled`, under the conditions of the runs that check it), and
`GraceSuffices`, that `Shutdown` returns (`ShutdownReturns`, which `pool_shutdown`
shows if the grace does not end between two processes of a worker, and
`pool_shutdown_grace` refutes without that). `EventuallySettled` rests on both;
messages, signals and faults need not come, and faults come finitely
often. In `Wire` the reader reads and the kernel takes bytes while there is room;
nobody has to write or to exit. Deadlock is checked in every
run but `pool_shutdown_grace`, whose subject is a system that stops.

## What is proved

For every set of workers and deliveries and every cap (`Worker`, `Pool`); for every
set of agents, bindings and limits (`Scan`); for every set of messages, worlds and
delivery tags, and any number of faults (`Engine`); and for every alphabet, set of
notes, frame limit and pipe size (`Wire`):

| Theorem | Says |
| --- | --- |
| `WorkerProofs!TypeCorrect` | `WorkerSpec => []TypeOK` |
| `WorkerProofs!NeverStranded` | `WorkerSpec => []NothingStranded` |
| `ContractProofs!OneOwnerAlways` | `WorkerSpec => []OneOwner` |
| `ContractProofs!CallerGateAlways` | `WorkerSpec => []CallerGate` |
| `ContractProofs!ContractKept` | `WorkerSpec => KeepsContract`, the refinement of `Settlement` |
| `HistoryProofs!ChainKept` | `WorkerSpec => []EmitKeepsChain` |
| `HistoryProofs!RequeueKept` | `WorkerSpec => []RequeueUnprocessed`, if frames are readable |
| `HistoryProofs!WithinCapKept` | `WorkerSpec => []HandlerWithinCap`, without timeouts |
| `HistoryProofs!NoAckLostAlways` | `WorkerSpec => []NoAckLost`, without timeouts, if handlers wait for each `emit_ack` |
| `HistoryProofs!SendHasRoomAlways` | `WorkerSpec => []SendHasRoom`, under the same conditions |
| `PoolProofs!PoolDrivesWorkers` | `PoolSpec => WorkerSpec` |
| `PoolProofs!PoolKeepsContract` | `PoolSpec => [](OneOwner /\ NothingStranded) /\ KeepsContract` |
| `PoolProofs!ReceptionKept` | `PoolSpec => KeepsReception`, the refinement of `PoolContract` |
| `PoolProofs!PoolTypes` | `PoolSpec => []PoolTypeOK` |
| `PoolProofs!PickHasRoomAlways` | `PoolSpec => []PickHasRoom`, if `Prefetch <= Size * Cap` |
| `PoolProofs!DrainedAlways` | `PoolSpec => []DrainedAtReturn`, without timeouts |
| `ScanProofs!LimitsHold` | `ScanSpec => []ChainsWithinLimits` |
| `ScanProofs!ScanTypes` | `ScanSpec => []ScanTypeOK` |
| `EngineProofs!InFlightAlways` | `EngineSpec => []InFlight`, the invariant all others of `Engine` rest on |
| `EngineProofs!NothingLeaksAlways` | `EngineSpec => []NothingLeaks` |
| `EngineProofs!HealthyAlways` | `EngineSpec => []HealthyWhileWorking` |
| `EngineProofs!ChannelNeverBroken` | `EngineSpec => []NeverBreaksChannel` |
| `EngineProofs!AckedAfterEmitsAlways` | `EngineSpec => []AckedAfterEmits` |
| `QueueProofs!KeptAlways` | `EngineSpec => []Kept`, the invariant the next five rest on |
| `QueueProofs!QueueKept` | `EngineSpec => KeepsQueue`, the refinement of `Mailbox` |
| `QueueProofs!CleanExitAlways` | `EngineSpec => CleanExit` |
| `QueueProofs!OfferFitsAlways` | `EngineSpec => []OfferFits` |
| `QueueProofs!BoundAsBriefedAlways` | `EngineSpec => []BoundAsBriefed` |
| `QueueProofs!EngineTypes` | `EngineSpec => []EngineTypeOK` |
| `QueueProofs!LayersAlways` | `EngineSpec => []LayersOverlay` |
| `WireProofs!WireInvAlways` | `WireSpec => []WireInv`, the invariant the other five of `Wire` rest on |
| `WireProofs!WireTypes` | `WireSpec => []WireTypeOK` |
| `WireProofs!InSyncAlways` | `WireSpec => []InSync` |
| `WireProofs!NothingSkippedAlways` | `WireSpec => []NothingSkipped` |
| `WireProofs!TornIsNoticedAlways` | `WireSpec => []TornIsNoticed` |
| `WireProofs!NotesKept` | `WireSpec => KeepsNotes`, the refinement of `NotePipe` |

The conditions are those under which the runs check these properties, and each is
one the code has: `~HasTimeout` is `timeout` 0, the default; `~BadFrames` is a
handler that writes only frames `Reader.Read` accepts; `SyncEmits` is one that reads
the answer to an emit before it goes on; `Prefetch <= Size * Cap` is what
`busConfig` computes from sizes of at least one (`OfferFitsAlways`). Without its
condition each property fails, for the reasons given under
[Where the code differs](#where-the-code-differs-from-what-it-says).

`OneOwner` alone is not inductive: a `Dispatch` blocked in `send` may later delete
the entry its id names, and only `CallerGate` says that the entry is its own,
which in turn needs `TypeOK`'s "ids in use are below `nextID`". So the invariant is
`Custody == TypeOK /\ OneOwner /\ CallerGate`. Each action moves a delivery along
new, offered, taken (slot, then debt), settled, or moves none; the lemmas
`SlotToDebt` and `SameOwners` are these two cases, and the refinement proof reuses
them. `NothingStranded` is inductive with `TypeOK`: a map grows only under a live
process, and the reader takes on settle calls only in `readLoop` and in the reap.

`HistoryProofs` relates the map of a worker to the notes on their way. None of its
properties is inductive, because what a note read from stdout does depends on what
was in the queue and in stdin long before. `Trace` follows each message through its
stages: its deliver note is in the queue or in stdin, or the process has it in
hand, or its done is in stdout, and in one of these at a time (`Staged`), and until
its done has been read whoever names it agrees with the map, unless a timeout gave
it up (`Known`). The lemmas state this for one step of one pipe (`Flows`), so that
an action of `Worker` needs only to say which pipe it moves. `Marked` adds that a
pickup is in the map, or in a stdout that will be read to its end, before anybody
can requeue (`SeenMarked`, `Drained`). For the room in the queue, `Answered` says
that each `emit_ack` queued or unread belongs to a different message of the map,
whose handler waits for it, and `Fits` that the map has at most cap entries; a
note still to send belongs to an entry without an ack, so cap + 1 notes are enough.

`PoolDrivesWorkers` needs `MainPlace`: which worker `engine.Run`'s goroutine has
got to in `Shutdown` and which of them are closing or stopped. `PickHasRoom` is not
inductive: from the receipt of a delivery to its registration some worker is below
cap, and either the least load seen is, or a worker not yet looked at (`Room`),
because meanwhile loads only fall.

`ReceptionKept` puts `Pool` and `Engine` together. That every call of the pool is
one of `Settlement` is `ContractKept`; what is left are the circumstances.
`Blameless` is about the excuse for a requeue: until a fault has happened, the
context is done or a worker is closing (`Excused`), every process that was started
runs with its stdin open and only notes in its stdout, a `Dispatch` in `send` has
the process it registered with, and nobody is about to call `Requeue`; so a message
that goes back proves a lost process or a shutdown. `WithinWindow` is about the slots: taken messages are among the unsettled ones,
which the broker's window bounds, so a window of at most `Size * Cap` leaves a slot
for the message that is offered. `Return` needs the invariants of `DrainedAlways`. A step of the pool
is then a step of `Serve`, one of the engine's goroutine, or a stutter.

In `Scan` the slots carry what `admit` established (`AdmittedWithin`) until the
emit is published, and a message that goes back to its queue still satisfies it
(`BeforeWithin`).

In `Engine` the invariant is `InFlight`. `Opened` ties `open` to the stage of `Run`
and to the stack of deferred calls, and needs `Offering` (only a `Run` that waits
in `Dispatch` has an offer out), or the pool's answer could bring `Run` back from
anywhere. `Connected` says that a live channel is an open one and that a new life
has nothing in hand: without it a settlement of the last life could meet a channel
of this one. `Holding` is the heart: while the channel lives, what is in the
buffer, offered or taken is waited for by the broker and has no settlement on the
way. From it, `ToldOnce` (each settlement on the way is waited for, and is the
only one) and `EmitsAhead` (an emit that has not arrived is ahead of its
settlement) are kept. A step either tells the broker of one delivery it lets go
of (`TellsKeeps`), or neither sends nor settles (`QuietKeeps`), or is one of the
broker's; all actions are these cases.

`Kept` adds what ties a message to the deliveries that carry it: only a consuming
channel, or one whose process died, owes the broker anything (`Quiescent`); a
message is out only once (`OutOnce`); what is out or in hand has not left the
queue (`Undecided`); and what the broker is being told has been said (`Spoken`).
Without `Undecided` a late verdict could move a message that is gone. The
refinement then needs one case per way a message changes its place. `CleanExit`
needs two facts more: what is settled here and still waited for there has its
settlement on the way (`Owed`), and a pool without a timeout that has been shut
down is empty (`Drained`); `Bus.Close` waits until nothing is on the way, so
nothing it gives back was settled. `OfferFits` is not inductive because a delivery
may be settled here and waited for there, or given back there and still in hand
here; `Windowed` bounds both sets by the window. Only a delivery adds to either,
and while the channel lives the second lies within the first. `WindowIsCapacity`
is the arithmetic of the raw product, the clamped one and the 16 bits.

`LayersOverlay` is about what `Config` computes from any world, and nothing there
changes in a life, so the temporal part is short; the work is the merge of the
arguments, a fold over two lists. `FoldLeft` is a chosen function on sets of
indices: that there is one for every list is shown by giving it (`Overlay`, which
says outright that the last entry of a name counts), that any such function agrees
with it on the whole list by the least prefix on which it would not (`LoopIs`; a
well-founded minimum stands in for induction, whose library theorems take an
operator).

In `Wire` the invariant is `WireInv`. What the reader takes for a header is one only
if it starts where a frame starts, so there is a function that gives the start of
every frame in the stream (`Starts`), the rest of the stream is the frame being
written (`Making`, `Begun`), and the reader is in the frame of the note it returns
next (`Placed`). All of it is stated for the notes sent before the first stray byte
(`Kept`), which is why `InSync` may speak of those when there is one. A whole
header is then `Prefix` of the length of that note (`HeaderIs`), and
`PrefixLength` that four bytes give it back; a whole body is that note, and all of
it was sent (`BodyIs`). At the end of the stream the reader stands in the frame
being written, so all before it was returned. For `NotesKept` the notes in the pipe
are those sent, less those returned (`InSync` makes the latter a prefix); a byte
that completes nothing is a stutter, and once a stray byte was written and the
notes before it are read, whatever is read is `ReadGarbage`.

The proofs rest on `HandlerAssumption`, `WorkerAssumption`, `PoolAssumption`,
`ScanAssumption`, `WireAssumption` and `EngineAssumption` alone, and on the
conditions above. `EngineAssumption` says that `Deliveries` is `1 .. n` for some `n`,
the tags the broker may use up, that scenarios are scenarios (in which the numbers
`Run` works with are integers, whatever their text was, arguments are lists and the
parsed file is there), and that `MaxEmits` is a number. `ConfigAssumption` says that
`Unset` and `Bad` are not numbers. Only model-checked is liveness, and so the
effect of fairness, which the provers do not reach; every safety property of every
passing run, the action properties and refinements among them, is proved.

## Variants

Next to the operators they replace, the modules keep variants: what a plausible
mistake would make of the code. No action uses them; put in place of the original
each breaks the property beside it, which shows that the property depends on it.

| Original | Variant | Breaks |
| --- | --- | --- |
| `FollowingID` | `SameID` | `TypeOK`, `PoolTypeOK` |
| `FollowingID` | `RecycledID` | `CallerGate` |
| `Delete` | `DeleteNothing` | `OneOwner` |
| `StillThere` | `AssumeThere` | `KeepsContract` |
| `WriterCloses` | `ClosesWhenDrained` | `KeepsReception` |
| `FreeSlot` | `SlotWithoutProcess` | `NothingStranded` |
| `FreeSlot` | `SlotOneTooMany` | `HandlerWithinCap` |
| `StaleVerdict` | `AlwaysRequeue` | `RequeueUnprocessed` |
| `ChainOf` | `NewestChain` | `EmitKeepsChain` |
| `OutCap` | `OutCapShort` | `NoAckLost`, `SendHasRoom` |
| `Armed` | `ArmedOnPickup` | `TakenIsSettled` (timeouts) |
| `AckEmit` | `BlockingAck` | `TakenIsSettled` (cooperative) |
| `Broadcast` | `SleepThrough` | `DispatchReturns` |
| `ShuttingDown` | `ClosingOnly` | `CancelStops` |
| `Kill` | `AskAgain` | `ShutdownReturns` |
| `Beats` | `MostLoaded` | `PickHasRoom` |
| `Stopped` | `StoppedTooSoon` | `DrainedAtReturn` |
| `SelectorFrom` | `WholeKey` | `ScanTypeOK` |
| `Admit` | `AdmitOneMore` | `ChainsWithinLimits` |
| `ChainAfter` | `PassOn` | `ScanEnds` |
| `NumberOr` | `BadIsZero` | `LayersOverlay` |
| `BusInputs` | `DefinitionInputs` | `BoundAsBriefed` |
| `Window` | `WindowOneMore` | `OfferFits` |
| `Window` | `WindowWide` | `EngineTypeOK` |
| `ClosedOnError` | `ChannelOnly` | `NothingLeaks` |
| `AllDefers` | `PoolBeforeBus` | `CleanExit` |
| `AllDefers` | `HealthOverPool` | `HealthyWhileWorking` |
| `Write` | `SettleFirst` | `AckedAfterEmits` |
| `Undecodable` | `NackAndHandle` | `NeverBreaksChannel` |
| `SeesClosed` | `IgnoreClosed` | `EventuallySettled` |
| `SpokenFor` | `AllUpTo` | `KeepsQueue` |
| `TooLarge` | `TooLargeLate` | `WireTypeOK` |
| `Length` | `LastByteFirst` | `InSync` |
| `AtEnd` | `ExitIsEnd` | `NothingSkipped` |
| `EndError` | `PlainEOF` | `TornIsNoticed` |
| `FrameOf` | `LongPrefix` | `WrittenIsRead` |
| `Whole` | `ShortRead` | `KeepsNotes` |

## Plan

The modules and refinements planned are written: `Worker` implements `Settlement`,
`Pool` drives `Worker` and implements `PoolContract`, `Engine` is composed with that
contract and implements `Mailbox`, `Wire` implements `NotePipe`. What is open:

1. `Scan` takes from the pool only that each message is settled once; composing it
   with `PoolContract` as `Engine` is would tie its late emits to the timer.
2. The inner structure of the envelope and of the codec, should a property ever be
   about them.

## Not modelled

The codec is a stateless conversion done by the protobuf library: its failure is
an outcome (`kind` bad and the world's `codec` in `Engine`, `Known` in `Scan`), what
it computes is not modelled. Nor are the protobuf and base64 forms of envelope,
settings and arguments, the descriptors behind `settings.go`'s getters, the
splitting of a command into words, and the JSON of a note. Logging is left out.
The body of the `shutdown` note (`note.go:69-73`) is written by nobody. Signals
that reach the handlers directly, and a handler that closes stdin early while it
lives, are left out, as is an AMQP server that refuses a publish: nothing in the
code would notice.
