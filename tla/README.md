# A TLA+ verification of nexenne

nexenne is a header-only C++ library of some twenty small modules (`src/modules/<name>/include`).
Most of it is sequential data structures, numerics and codecs. Its own core logic, the part where
the order of steps decides whether it works, lies in four places:

- lock-free queues (`container`),
- two ways of logging through a background thread, and a log file that rotates (`logging`),
- code that calls its user back and goes on with what is left: signals (`signal`), the entity
  registry and its views (`ecs`), the alarm (`chrono`),
- protocol state fed by an unreliable bus or an edge source (`can`, `gpio`).

This directory holds TLA+ models of those parts, the TLC configurations that check them on small
instances, and proofs about most of them for every size, every number of actors and every bound.
All paths below are relative to `src/modules/<module>/include/nexenne/<module>/`.

## 1. Inventory

| component | state it keeps | operations | modelled by |
|---|---|---|---|
| `container/mpmc_queue` | two ticket counters, a ring of slots (sequence number, element storage) | `push`/`emplace`, `pop`/`try_pop`, `size_approx`/`empty_approx`/`full_approx`, destructor | `MpmcQueue` |
| `logging/async_sink` | bounded `std::queue`, mutex, three condition variables, stop and in-flight flags, worker thread | `write`, `flush`, destructor, worker loop | `AsyncSink` |
| `logging/manager` | an `mpmc_queue`, stop and dispatching flags, wakeup token, sink list | `push`, `push_blocking`, `flush`, `shutdown`, backend loop, `add_sink`, `clear_sinks` | `AsyncManager` (sink list fixed) |
| `signal/signal`, `connection`, `slot` | slot list, pending list, emit depth, blocked flag, handles | `connect` (plain, once, prioritised, tracked), `disconnect`, `disconnect_all`, `block`, `emit`, destruction | `Signal` |
| `signal/static_signal` | fixed array of entries with alive/once/executing flags, emit depth, id watermark | the same without allocation | `StaticSignal` |
| `ecs/registry` | generations, free list, alive set, component storages, listeners | `create`, `destroy`, `add`, `remove`, `patch`, `clear` | `EcsRegistry` |
| `ecs/component_pool`, `ecs/view` | slots that never move, tombstones, sparse index; a view's driver and exclude storages | `insert_or_assign`, `erase`, `contains`; `each`, iterators | `ComponentPool`, `EcsView` |
| `can/j1939_transport` | open reassembly sessions | segmenting; `accept` of announce and data frames | `J1939Transport` |
| `container/slot_map` | slots, generations, free list | `insert`, `emplace`, `erase`, `clear`, lookups | `SlotMap` |
| `container/mpsc_queue`, `spsc_queue` | ring and positions | `push`, `pop`, approximate sizes | `MpscQueue`, `SpscQueue` (without the sizes and `clear`) |
| `gpio` event path | drop counter, ring, last sequence number, settled level | `queue_sink::push`, `drain_events`, `sequence_tracker::feed`, `event_debounce::feed` | `GpioEvents` over `SpscQueue` |
| `logging/rotating_file_sink` | active file, its size, backups | `write`, `flush`, `force_rotate`, rotation, construction, destruction | `RotatingFile` |
| `chrono/alarm` | armed flag, mode, next time, period | `arm_at`, `arm_after`, `arm_periodic`, `disarm`, `poll` | `Alarm` |
| other timers of `chrono` | anchors, counts, tokens | `tick`, `refill` | not modelled, see section 8 |
| other containers, `filter`, `serialization`, `algorithm`, `geometry`, `math`, `random`, `utility`, `benchmark` | values only | pure or single-object operations | not modelled, see section 8 |

How they interact. A logger stamps a record and hands it to a manager. The asynchronous manager puts it into its
`mpmc_queue` and bumps a token; its backend thread pops it and calls `write` on every sink under a mutex; one of
those sinks may be an `async_sink`, which queues it once more under a mutex and lets its own worker call the inner
sink. `flush` and `shutdown` must see through all of these hand-overs. Signals are single-threaded; what makes them
hard is that every slot is user code that may connect, disconnect, block, emit again or destroy the signal while
the slot list is being walked. The same is true of a view's `each`, whose callback changes the storages that are
being walked, and of the alarm, whose callback arms it again. On the `gpio` side a thread drains the kernel's
events into an `spsc_queue` and another one feeds what it pops to a tracker and a debouncer.

What makes each component correct, and what is hard to test about it:

- *mpmc_queue*: it behaves as one bounded FIFO although no lock orders the calls; no two threads touch
  one element; a refusal has a reason. Hazards: stale positions, a ticket claimed long before it is
  published, size estimates from two separate loads, teardown after any history.
- *async_sink*: the inner sink gets the accepted records once and in order; a flush covers what was accepted before
  it, including the record in flight; everybody who waits is woken; the destructor writes and flushes what the sink
  holds, but for one record a write already inside may displace. Hazards: lost notifications, a woken producer
  overtaken by another, and shutdown meeting parked producers, a parked flush, or a write that is about to displace
  a record.
- *manager*: no lost wakeup between a push and the backend's wait; flush sees a popped record; shutdown
  finishes and leaves the queue empty. Hazards: a slot that is claimed and not published hides the
  published ones behind it.
- *signal*, *static_signal*: an emit calls exactly the slots it owes a call, in order, each once, under
  any re-entrance; deferred work is complete when the outermost emit ends; an entry on the call stack
  is never moved or reused.
- *registry*: a handle names one entity for ever although indices are recycled; destroy leaves no component
  behind for the next owner of the index; `on_destroy` sees every component before it goes, with a
  reference that stays good. Hazards: listeners that create, destroy, add and remove in the middle of a
  destroy or clear.

- *component_pool*, *view*: a component keeps its slot as long as it exists; a walk passes every entity that matches
  throughout to the callback exactly once. Hazards: slots vacated and reused on either side of the cursor.
- *slot_map*: a key reaches its own element or nothing. Hazards: recycling, `clear`, a wrapping generation.
- *j1939_transport*: a message is one sender's payload in full, and an undisturbed transfer is received.
  Hazards: lost, repeated, damaged, overtaken frames; restarted transfers; eviction at `max_sessions`.
- *gpio path*: every event is delivered or counted where it was lost; a debounced level was held. Hazards: an
  overrun in the kernel and a full ring at the same time, an interrupted or failing wait.
- *rotating_file_sink*: only the oldest records are lost, files stay in order and within their limit. Hazards: a remove,
  rename or open that fails in the middle of a rotation; the end of the process between two of them.
- *alarm*: every boundary of a period is fired once, in order, whatever its callbacks do.

`PROJECT.json` lists every hazard at its line with the properties that cover it, or the reason none does.

## 2. Modules

| module | what it is |
|---|---|
| `Ring` | slots and tickets of a ring buffer: `Slot(t) == t % N` |
| `BoundedFifo` | abstract: what a bounded queue shared by threads promises |
| `MpmcQueue` | `mpmc_queue.hpp`, one action per atomic access, with its properties and inductive invariant |
| `MpscQueue` | `mpsc_queue.hpp`, on the producer steps of `MpmcQueue` |
| `SpscQueue` | `spsc_queue.hpp`, shown to implement `BoundedFifo` |
| `AsyncSink` | `async_sink.hpp` |
| `AsyncManager`, `ManagerShutdown` | `manager.hpp` over the queue; the second adds a history variable for one claim |
| `SignalContract` | abstract: whom an emit owes a call |
| `Signal`, `StaticSignal` | `signal.hpp` and `static_signal.hpp`, each shown to implement `SignalContract` |
| `EntityStore` | abstract: what a registry promises to those who hold handles |
| `EcsRegistry` | `registry.hpp`, shown to implement `EntityStore` |
| `ComponentPool`, `EcsView` | `component_pool.hpp` as functions of a pool, and walks by `view.hpp` over several pools |
| `SlotMap` | `slot_map.hpp` |
| `J1939Transport` | `j1939_transport.hpp` and the bus between its two halves |
| `GpioEvents` | `queue_sink.hpp`, `drain.hpp`, `sequence_tracker.hpp`, `event_debounce.hpp` over `SpscQueue` |
| `RotatingFile` | `rotating_file_sink.hpp` and the disk |
| `Alarm` | `alarm.hpp` |
| `MCQueues`, `MCSignals`, `MCStores`, `MCDevices` | several components in one run, each alone: `which` |
| `MCJ1939`, `MCGpioEvents` | symmetry of pairs and the finite set of events for TLC |
| `MpmcProofs` | proofs about `MpmcQueue` and `MpscQueue` |
| `AsyncSinkProofs`, `AsyncManagerProofs` | proofs about the two loggers |
| `SignalProofs` | proofs about `Signal` and `StaticSignal` |
| `StoresProofs` | proofs about `EcsView`, `ComponentPool` and `SlotMap` |
| `EcsRegistryProofs` | proofs about `EcsRegistry`, and what `StoresProofs` says of the composition in `MCStores` |
| `DeviceProofs` | proofs about `GpioEvents`, `SpscQueue`, `RotatingFile` and `Alarm` |
| `J1939Proofs` | proofs about `J1939Transport` |

`MCQueues`, `MCSignals`, `MCStores` and `MCDevices` hold the state of several components; `which` says in the
initial state which of them moves, and the others keep their initial state. The state space is the sum of theirs,
not the product, and a property about one component holds trivially where another one moves. Every type invariant
is part of one of the properties that are checked (it is the first conjunct of `Inv`, `InOrder`,
`DispatchedInOrder`, `Settled`, `FreeListExact`, `KeysExact`, `WithinBudget`, `CatchesUp`). A module that is only
instantiated states what its constants must be as a definition, and the module that gives the constants their
values assumes it, so that TLC evaluates it there.

### MpmcQueue

`enqueuePos`, `dequeuePos`, `sequence` and `storage` are the members; `pc`, `pos`, `arg`, `value` are the
locals of each thread inside a call; `log` is a history variable, the item of every ticket ever claimed. An
action is one atomic load, compare-exchange or store with the local computation up to the next one:
`PushBegin` loads the position, `PushSlotReady`/`PushFull`/`PushBehind` compare the slot's sequence,
`PushClaim` is the compare-exchange, `PushConstruct` and `PushPublish` write the element and the sequence;
`pop` is the mirror image. `compare_exchange_weak` may fail spuriously. The two loads of `size_approx`
happen in either order, since the compiler may evaluate the operands of the subtraction in either.
Steps interleave with sequential consistency: that the
release/acquire pairs on `sequence` are enough to justify this for the non-atomic storage is an assumption,
as is the use of unbounded naturals for tickets that in the code wrap after 2^64 operations.

### MpscQueue, SpscQueue

`MpscQueue` extends `MpmcQueue`: `emplace` is the same code, and `PushBegin` and `PushStep` are its steps. `Found`
reads `m_head` and the slot, `PopTake` moves the element out, `Reopen` stores the sequence and `Advance` stores
`m_head`, in the order of the code, so that between the two a producer may be a ticket ahead of what `m_head` says.
"Consumer thread only" is the guard that no other consumer is inside `pop`. An item leaves the abstract FIFO when
it is moved out. `size_approx` may report N + 1 in that gap, which its "best-effort" allows; `MpscExact` bounds it.

`SpscQueue` has `emplace` and `try_pop` of the ring with one producer and one consumer; each side loads its own
index and the other's in one step, as nobody else writes its own. The element of `BoundedFifo` is enqueued by the
releasing store and taken by the move-out.

### AsyncSink

`queue`, `stop`, `processing` are the members guarded by the mutex; a critical section is one action, and each
notification after the unlock is an action of its own, so anything may happen in between. A waiter is `parked` until
a notification makes it `woken`, after which it must take the mutex and test its predicate again; `SpuriousWakeup`
wakes anybody. `current` is the record the worker holds. `policy` is chosen once, so a run covers all three overflow
policies. `accepted`, `dropped`, `written`, `durable` and `covers` are history, and so are `owed` and `raced`, which
`DtorStop` sets: what was accepted and not displaced when the destructor set `m_stop`, and whether a write was
inside `write_out` without having taken the mutex. `GracefulShutdown` holds what is written in the end against
`accepted`, `dropped` and `owed`. A producer's write after the level filter is modelled; a filtered record does
nothing. Nobody begins a call after the destructor has begun; calls already inside `write` or `flush` go on, which
the code explicitly provides for ("it must observe the stop and bail out").

### AsyncManager

It stands on what `MpmcQueue` is shown to do. A push takes the next ticket in one step (`PushClaim`) and publishes
it in another; a pop takes the oldest ticket, only if it is published, and frees the slot in a later step. Then
`PushSignal` and `PushNotify` are `wake_backend`'s increment and notify. `BackendToken`, the drain actions,
`BackendCheck` and `BackendWait` are the backend loop: `m_signal.wait(token)` parks only if the token is unchanged.
`flush` polls, load by load. `DrainMark` to `DrainUnmark` are shared by the backend and by `shutdown`'s final
drain. Writing to the fixed list of sinks is one step, since it happens under `m_sinks_mutex`.

### SignalContract, Signal, StaticSignal

`SignalContract` knows no list: `subs` are the subscriptions, `late` those made during an emit, and each emit
in progress has the set it still `owed` a call. `Signal` has the code's list with dead marks, the pending
list, and one `frame` per nested emit (the index and the end captured at its start). User code is
represented by the guard `UserRuns`: outside all emits, or inside the slot that the innermost emit is calling,
any operation may come next. This covers every program of callables that uses the signal within the bounds.
The refinement maps live entries to `subs` and, for each frame, the live entries after its index to `owed`.
`tracked` is the handle list of a receiver (`slot`, `static_slot`), whose destruction disconnects.

`StaticSignal` differs where the code does: no pending list but an id watermark, an `executing` flag per
entry, and reuse of a dead entry when the array is full. The contract is implemented with `FifoTies` FALSE:
called by priority, but not in insertion order among equals, because a reused entry keeps its place
(`connect`'s documentation at `static_signal.hpp:502` promises insertion order; only entries reused at capacity
break it). A connect refused at a full list returns an invalid handle, which a `static_slot` tracks all the
same: both are in the model (`Refused`, `NoId`).

### EntityStore, EcsRegistry

`generations`, `free` (a stack, as in the code), `alive` and `table` are the members of the registry; `has` says
which indices each component storage contains. As in the signals, `frames` is the stack of operations whose
listeners are running, and user code may call the registry outside every operation or inside a listener. `Add`,
`Patch` and `Remove` run up to their signal; `NotifyEnd` and `RemoveEnd` are what follows it. `Destroy` takes the
index out of the alive set; each `DestroyFire` erases the component announced last and announces the next (no user
code runs between the two); `DestroyEnd` is the final sweep, the new generation and the return of the index.
`Clear` takes the snapshot, `ClearFire` and `ClearNext` walk it, `ClearEnd` resets everything. An operation called
with a stale handle returns at once and is no step. The warnings of `add`, `remove` and `patch` are in the model as
`MayDetach`: a listener does not detach the component it is being handed, and it does not call `clear`, which
would. `EntityStore` knows only handles: the alive ones, what they carry, and the retired ones, which include those
of dying entities. The component values and the pool's slots are left out. The comment at `registry.hpp:1001`
explains the final sweep by listeners that attach to the dying entity; since the entity is already out of the alive
set `add` refuses that, and only writes through `storage<T>()`, which are not modelled, get there.

### ComponentPool, EcsView

A pool is a record (`sparse`, `slots`, `free`, `size`) and its operations are functions, `Inserted` and `Erased`,
with which `EcsView` changes a set of pools. `Filled` is a pool after a first run of insertions. `Construct` chooses the driver, the smallest include storage at that
time. `Begin` captures the slot count and goes to the first visible slot, `Advance` and `End` go on from there when
the callback returns; between them `Add`, `Remove` and `Destroy` are open to it. `undisturbed` is the history of
the entities that matched since the walk began: `EachOnce` is about them. An entity that the callback takes out and
puts back may be passed twice, as the module comment of `view.hpp` says at line 45 (the postcondition at line 201
does not).

### SlotMap

`values`, `generations`, `free` and `size` are the members; `issued` is the key that was returned for each element.
`Erase` tries any key ever issued. `Generations` is the number of values of the generation counter, 2^32 in the
code and small here, so that it wraps: `KeysExact` says what a key reaches until its slot has had an element for
each of the others.

### J1939Transport

The senders put the frames of a transfer on the wire of their pair; the reassembler hears each in turn (`Deliver`),
or twice (`Repeat`), damaged (`Damage`), not at all (`Lose`), or after the one behind it (`Overtake`). `Accept` is
the whole handler: `HearsAnnounce` opens, replaces or closes the pair's session and evicts the oldest of the others
at `max_sessions`; `HearsData` appends, closes the session on a wrong number or a short frame, or completes the
message. A payload byte is the pair of its transfer and position, so a mixed message shows. Sequence numbers are
taken modulo `MaxPackets + 1`, as the byte is modulo 256. `heard`, `torn` and `since` are history.

### GpioEvents

`Edge` is the kernel, external: it numbers the edges and drops the oldest at a full buffer. The drain actions are
`drain_events`, one per wait and per push, over the producer's steps of `SpscQueue`; the consumer's are `try_pop`
and the two `feed`s that follow. `WaitMiss` may happen while events are ready (an interrupted call) and `WaitError`
loses the report but not the events. The debouncer is the boolean `timed_debounce` it stands on.

### RotatingFile

`disk` maps the active file (0) and the backups to the records in them. A rotation is `CloseCurrent`,
`RemoveOldest`, one `Shift` per rename and `Reopen`; each of the three last kinds may fail, which the code ignores,
and `Crash` may come anywhere. `Put` lets stdio write through as much of its buffer as it likes. `RollsForward`
says that records stay in order over the files and only the oldest are lost, except those in the buffer of a
process that died; `WithinBudget` that the running size is the file's and a file exceeds its limit only by a single
record that is longer, or after a failed operation.

### Alarm

`Poll` and `PeriodicReturns` are the loop of `poll`, cut at its callback, where `Arm`, `Disarm` and `Tick` may
happen and `Throws` leaves the loop. `first`, `served`, `late` and `wanted` are history.

## 3. Runs

| run | instance | shows |
|---|---|---|
| `mpmc_safety` | 2 producers with 2 pushes each, 2 consumers, 1 observer, N = 2; `mpmc_queue` or `mpsc_queue` | exclusive slots, storage discipline, no leak, the inductive invariant, bounded size estimates, justified refusals; both refine `BoundedFifo` |
| `mpmc_liveness` | 2 + 2 threads, N = 2, 2 pushes each | every call returns; the queue drains |
| `async_sink` | 2 producers with 2 writes each, 1 flusher, limit 2, all three policies | order, flush coverage, every call returns, the destructor completes; it writes and flushes every accepted record that was not displaced, and at most one is displaced behind the stop, under `drop_oldest` by a write already inside |
| `async_manager` | 2 producers, 3 pushes, 1 flush, queue of 2 | dispatch in order, flush coverage, no lost wakeup, shutdown completes |
| `signals` | `signal`: 3 connections, 2 priorities, nesting 2; `static_signal`: 3 entries, 4 connections, 2 priorities, nesting 2 | settled lists, pinned list, the contract implemented by both |
| `stores` | registry: 3 indices, 2 component types, nesting 3, each index destroyed once by `destroy` before a `clear`; view: 3 entities, 2 include and 1 exclude storages, 3 changes; slot_map: 3 slots, 8 elements, 3 generations | exact free list, components announced before they go and alive while they are delivered, refinement of `EntityStore`; exact pools, every lasting match visited once; exact keys |
| `devices` | line: 5 edges, 2 in the kernel, ring of 3 slots, period 2; file: 2 backups, limit 2, 5 records of length 1 or 3, 1 forced rotation, 2 faults; alarm: 6 ticks, periods 0 to 2, 3 armings | every event accounted for and every gap known, debounced levels were held, the ring refines `BoundedFifo`; files in order and within budget; every boundary fired once |
| `j1939` | 3 pairs, 2 sessions, 4 transfers of 3 packets, 2 faults | bounded sessions, intact messages, undisturbed transfers complete |

Why the bounds are enough to meet the interesting cases. N = 2 with four pushes gives two laps of the ring, so a
position can be a whole lap stale and a queue can be full with a slow consumer inside a slot. A limit of two with
four writes fills the sink's queue while a record is in flight, under each policy, with a producer parked and
another one overtaking it. Two priorities with three or four connections give ties, one-shot slots, a slot that
runs in the outer emit while the inner one visits it, and, with three static entries and four connections, reuse.
Three pushes on a queue of two give a full queue, a claimed and unpublished front with a published record behind
it, and a slot that is being released when the next push needs it. Three indices and nesting three let a listener
destroy a second entity whose listener destroys or creates a third, with recycled indices, and let listeners of
`clear` do all of this on both sides of its walk. A walk over three slots with three changes lets the callback
vacate a slot, fill it with another entity and change it again, before or behind the cursor; the initial storages
are all those that insertions can make of empty ones, up to a renaming of entities (`Canonical`), with tombstones
coming from changes made before the walk. Three usable generations and eight elements take a slot through a whole
cycle and past it. Three pairs on two sessions make an eviction; with four transfers one pair can restart, and two
faults hit its announce and a later frame. Five edges overrun a kernel buffer of two and a ring that holds two
while an event is in the hands of the drain and another one in those of the consumer. Two backups and five records
let a rotation fail or be cut off between its renames and another one follow; records of length 3 are longer than
the limit. Six ticks hold three boundaries of period 2 within one poll, and three armings leave two to callbacks.

TLC's deadlock check is on except in `devices`, `j1939` and `event_debounce`, whose systems stop when the line, the
disk, the clock or the bus has used up its bound. Elsewhere, where the system may really stop (a queue destroyed, a
sink gone, a manager shut down, a signal destroyed) the specification has an action of its own for that state,
`Gone` or `Finished`, so any other state without a successor is an error.

### Disagreements with the documentation

Each of these runs checks one statement quoted from the repository, and TLC finds a behaviour of the
code that contradicts it.

| run | statement | what happens |
|---|---|---|
| `async_flush_hang` | flush returns early if a shutdown is in progress | the destructor does not notify `m_drained`; if a write stopped under `drop_oldest` has displaced the last queued record, the worker leaves without a last notification and a parked flush stays parked |
| `static_reuse` | an entry on the stack is never reused | `executing` is a flag and not a count: a nested emit clears it while the outer call of the same slot still runs |
| `manager_shutdown` | a graceful shutdown loses no record | a slot claimed but not published makes both final drains end early; the published records behind it are not written |
| `event_debounce` | a level the line has held for the period is forwarded | a level is settled only by a second event with it; a line that changes once and rests, or alternates slowly, never sends one |

Others were met while modelling and have no run of their own; the models admit what the code does, and the
properties are stated so that they hold.

- `async_sink`: under `drop_oldest` the destructor may lose a queued record. A write that is already inside when
  `m_stop` is set and then meets a full queue pops its head (line 185) before it tests `m_stop` (line 191), and
  returns. The documentation says otherwise three times: "no queued record is lost on a normal teardown" (line 22),
  "every record already queued is written" with "all queued records have been dispatched" (lines 134 to 138), and
  "a graceful shutdown loses no queued record" (line 223). `GracefulShutdown` admits it and bounds it: one record,
  as the freed place is not filled again, and none without such a write or under the other policies.
- `signal`: a slot destroys the signal during its emit; a later `disconnect` finds no owner and does nothing, while
  the emit keeps calling the remaining slots, among them the disconnected one ("will not fire again").
- `registry::clear`: listeners "observe each component exactly once, and may destroy entities"; a listener that
  destroys an entity the walk has passed has its components announced again.
- `static_signal::connect` (line 502): insertion order among equal priorities is lost when a dead entry is reused.
- `j1939_transport`: a session has no timeout. When the end of a transfer and the next announce of the pair are
  both missed, the packets of the next transfer may continue the old session, and the message is a mixture,
  although the class comment (lines 179 to 182) promises to drop the session rather than assemble corrupt data.
  `Intact` excludes pairs with a missed announce.
- `drain_events`: an interrupted wait ends it with events still ready, against its postcondition (`drain.hpp:65`).
- `view::each`: exactly once (line 201) against twice after a removal and re-addition (line 45).
- `alarm`: a one-shot armed by the callback of a periodic fire is disarmed unfired (line 247), and a periodic
  arming made there loses its first boundary, against "the first fire is scheduled period after now" (line 143).
- `rotating_file_sink`: after a failed rename of the active file it stays over its limit, and each further record
  rotates again and pushes a backup out.

## 4. Fairness

Safety is checked without fairness. Liveness assumes weak fairness of each thread that is inside a call (the
scheduler runs every thread) and of the worker or backend thread. No fairness makes anybody start
a call, begin the destruction or wake spuriously. In `MpmcQueue` a compare-exchange may fail spuriously, but not
for ever while the position is the expected one (strong fairness of `PushClaim` and `PopClaim`), and `QueueDrains`
assumes consumers that poll, as the manager's backend does. Signals are sequential and need none.

## 5. What is proved

TLC checks the instances of section 3; the theorems hold for every value of the constants: any capacity, any sets of
threads, keys, types or pairs, any depth of nesting and any number of calls. They rest on the named assumptions of
the modules and nothing else. These say what the constants are (a capacity of at least one or two, disjoint sets of
threads, a sentinel that is no item), and the code justifies them with its requires clauses, asserts and types.
`MpmcQueue` also names the power of two its class requires, which no proof uses. Modules that are only instantiated
state theirs as a definition (`PoolAssumption`, `ViewAssumption`, `SlotMapAssumption`); it is a hypothesis of their
theorems, and the module that gives the constants their values assumes it. TLC evaluates all of them.

An invariant worth checking is seldom inductive. Each proof begins with the invariant that is, as a conjunction
of named parts with a comment each; a lemma per action shows that it is kept, and the properties follow from it.
What a run checks and a theorem states is the same definition. For the stores that is the one of the composition
`MCStores`, where the view and slot_map take their own steps or none (`Composed`), so that what `StoresProofs` proves
of each of them carries over; the same holds of the alarm and the file in `MCDevices` (`AlarmAlone`, `FileAlone`) and
of the queue for one consumer in `MCQueues` (`MpscAlone`).

| module | theorem | statement |
|---|---|---|
| `MpmcProofs` | `TypeCorrect`, `InvariantHolds` | `Spec => []TypeOK`, `Spec => []Inv` |
| | `SlotsExclusive` | two threads never own one slot |
| | `StorageDisciplined` | elements are constructed on raw storage and moved out while alive |
| | `NothingLeaks` | the destructor leaves no element |
| | `SizeBounded` | the size estimate is at most N, plus the pops in between in the other order |
| | `RefusalsAreJustified` | full and empty are reported for a reason |
| | `ImplementsFifo` | the queue implements `BoundedFifo` |
| | `MpscInvariantHolds` | the inductive invariant of the ring for one consumer |
| | `MpscIsExact` | it implements `BoundedFifo`, leaks nothing, and its size estimate is at most N + 1 and the pops in between |
| `AsyncSinkProofs` | `InvariantHolds` | the inductive invariant |
| | `RecordsInOrder` | the inner sink gets the accepted records in order and once, all but the dropped ones |
| | `ShutdownIsGraceful` | when the destructor is done the accepted records minus the dropped ones are written and flushed; of those the sink owed at the stop at most one is missing, under `drop_oldest` and only if a write was inside |
| | `FlushIsABarrier` | a flush covers what was accepted before it |
| `AsyncManagerProofs` | `InvariantHolds` | the inductive invariant |
| | `RecordsDispatchedInOrder` | records reach the sinks in order and once |
| | `FlushIsABarrier` | a flush covers what its thread pushed before it |
| `SignalProofs` | `InvariantHolds` | the inductive invariant |
| | `ListIsSettled` | outside an emit the list is what is connected, in firing order |
| | `ListIsPinned` | the list does not move under an emit |
| | `ImplementsTheContract` | the signal implements `SignalContract` |
| | `StaticInvariantHolds` | the inductive invariant of the static signal |
| | `StaticListIsSettled` | outside an emit its list is sorted, alive and within its storage |
| | `StaticImplementsTheContract` | the static signal implements `SignalContract` |
| `EcsRegistryProofs` | `InvariantHolds` | the inductive invariant |
| | `FreeListIsExact` | an index is alive, free once, or being destroyed |
| | `DestroyIsObserved` | components are announced before they go, and there while listeners look at them |
| | `ImplementsTheStore` | the registry implements `EntityStore` |
| | `KeysAreExact` | a `slot_map` key reaches its element or nothing |
| | `PoolsAreExact` | keys, slots, tombstones and size of every storage agree |
| | `EachIsOnce` | a walk passes each lasting match once; components do not move |
| `StoresProofs` | `MapInvariantHolds`, `ViewInvariantHolds` | the two inductive invariants, from which the same three facts follow for `SlotMap` and `EcsView` alone |
| `DeviceProofs` | `InvariantHolds`, `AlarmInvariantHolds`, `FileInvariantHolds` | the inductive invariants of the event path, the alarm and the file |
| | `EveryEdgeIsAccounted` | every edge is delivered, on its way, or counted where it was lost |
| | `TrackerIsExact` | the gaps are the lost events |
| | `DebouncedWasHeld` | a debounced level was held for the period |
| | `RingIsAFifo` | the SPSC ring implements `BoundedFifo` |
| | `AlarmCatchesUp` | every boundary up to a poll has had its callback, once, in order and while wanted |
| | `FilesStayWithinBudget` | the running size is the file's; without failures a file exceeds its limit only by a single record |
| | `FilesRollForward` | records stay in order, and only the oldest and the buffered are lost |
| `J1939Proofs` | `InvariantHolds` | the inductive invariant |
| | `SessionsAreBounded` | sessions and their buffers keep their bounds |
| | `MessagesAreIntact` | a message is one sender's payload in full |
| | `CleanTransfersComplete` | an undisturbed transfer is received |

### The arguments

*mpmc_queue.* `SlotExclusive` is not inductive: that the winner of ticket t is alone in `Slot(t)` depends on what
the slot's sequence said when its position was read, perhaps several laps ago. `Inv` therefore describes each slot
through the one ticket of the last N that maps to it (`LastLap`, `SlotsCovered`), and says that this ticket is in
one of four states: being written, published, being read, released (`TicketState`). `PositionsBehind` says a local
position may be stale, but while it still equals its counter the slot that looked ready is ready, so a
compare-exchange that succeeds finds a raw or a full slot. `WriterHolds` and `ReaderHolds` say what the holder of a
ticket may rely on until it lets go. The lemmas on slots supply the arithmetic: two tickets less than N apart never
share a slot, and N apart they do. `ImplementsFifo` maps the two successful compare-exchanges to `Enqueue` and
`Dequeue`, the return of pop to `Deliver`, and everything else to a stutter (`InvisibleStep`).

*mpsc_queue.* Here one window of N tickets says everything (`Window`): it begins at the oldest ticket whose slot was
not given back, which is `m_head` or, between the store to the sequence and the store to `m_head`, the ticket after
it. `HeldSlots` describes the part below `m_tail`, `OpenSlots` the rest. N tickets in a row map to N different slots
and reach all of them (`WindowApart`, `WindowCovers`), so a producer's store never hits the slot the consumer is at,
and a slot that looks ready to a producer with the next ticket lies in the window although `m_head` is late. The
mapping to `BoundedFifo` takes `PushClaim` to `Enqueue`, `PopTake` to `Dequeue` and `Advance` to `Deliver`; the +1 in
the size bound is the window's one step ahead of `m_head`.

*async_sink.* `InOrder` says that what was written, is in flight and is queued `Survives` of what was accepted when
the dropped records are taken out: an increasing map of places, without recursion, so that appending a record on
both sides, moving one from the queue to the worker, and dropping the front of the queue are one lemma each. It
needs `RecordsFresh` (what is about to be pushed was not pushed before), `InFlight` and `Ending` (the worker leaves
only behind a stop and an empty queue). At the end queue and hand are empty, so `Survives` makes the records written
the accepted ones minus the dropped ones. `StopLosses` adds what happens behind the stop: a displacement needs a
full queue and leaves it one short, and nothing is pushed any more, so a second one finds no full queue; hence one
record at most is missing from `owed`. `FlushWaited` carries the barrier from the wait to the call of the inner
flush.

*manager.* `OneDrainer`: the closer drains only when the backend is gone, so `current` has one owner. `InFlight` ties
the record between pop and dispatch to `m_dispatching`. `Knows` says what each load of `flush` has told its thread: a
tail read first bounds its tickets, a head that has reached it means they are popped, and a flag that is down after
that means they are written. It is this chain that makes two relaxed loads and a flag a barrier.

*signal.* The list is in firing order with its dead marks, pending entries are younger than all of it (`FiringOrder`),
and every frame walks the whole list (`Walking`), since nothing is inserted or erased while one is open. `Resting` says
that nothing is deferred when none is. Sweeping, applying the pending list and disconnecting by id are recursive
functions over places in the model; `UpTo` and `Recursion` in `SignalProofs` give induction up to a bound from the
least counterexample, and with it what the three leave behind. The refinement maps live entries to subscriptions and,
for each frame, the live entries after its index to the calls owed; each action is shown to be its contract's action
or a stutter.

*static_signal.* The list is in order only among what the watermark calls old: `StaticPlaced` says that everything else
waits for a sort that is due, which is enough for an emit to call by priority, and the sort restores the order of
the whole. `StaticFlagged` says whose flags are set, so that none is when the outermost emit has ended. The refinement
splits the alive entries at the watermark into subscriptions and late ones; a reused entry was dead and comes back
with an id past the watermark, so neither side of the contract loses anything by it (`StaticStored`).

*registry.* Frames of nested operations share the storages. `Delivering` says a component in the hands of listeners is
there and no frame above takes it away; `Placed` that components belong to living entities or to one being destroyed,
between the type the destroy has reached and the table it began with; `Announced` that nothing is erased unseen; and
`Owing` what `clear` has still to announce, ahead of it. `RoomToBump` leaves room for those to come, so that no
handle is given out twice. The refinement maps an index with its generation to a handle.

*slot_map.* That a key's generation differs after its element is gone depends on how often the slot was bumped since.
`Cycled` counts: a slot's generation is the key's, turned once for every element put there since and once more if it
is vacant. As long as fewer elements followed than there are other generations, a turned generation is a different one
(`BumpTurns`), so a key that matches has no successors, and `Latest` makes the element in the slot its own.

*component_pool, view.* `Exact` is kept by `Inserted` and `Erased`, which move no other key. `Walked` places the cursor
among the undisturbed entities: those whose slot it has reached were visited, the others lie ahead within the captured
count. A slot does not change while its component stays, so a callback's changes keep this for what remains
undisturbed, and at the end of the walk nothing lies ahead. `DriverIsIncluded` is needed because the walk of
another storage would not meet every match.

*gpio.* `Stations` relates the indices and the steps of both sides of the ring; `OnTheWay` joins what `try_pop` holds,
what is queued, what the drain carries and what the kernel keeps into one sequence with increasing numbers
(`Numbered`), which makes gaps and losses the same. `Debouncing` says since when the candidate was fed without a break.
The theorem about the ring as a FIFO names as a hypothesis that the events fit the set of items of the ring
(`EventsFit`), which `MCDevices` assumes for its instance; the other proofs allow any events.

*alarm.* `Pending` says how many boundaries lie before `m_next`: those that were served, and the first of an arming that
the callback of a periodic fire made, which the loop skips. While a callback runs its own boundary is still the next
one, which is why the number depends on where the loop stands. `Arming` says what an arming leaves in the members.

*rotating_file_sink.* `Sized` ties `m_current_size` to the records in the file and the buffer; it holds only while the
file is open, and `Handled` says that a rotation, a crash and a failed open leave it closed. `Ordered` is the order of
all files and the buffer. A record is younger than all of them when it is put: the one that waits for its rotation is
the last one there is (`Awaited`). A rename keeps the order whatever failed before it (`Rename`), but it overwrites
nothing only when nothing failed, as the place it moves to has been left before (`Vacated`). `Fitting` is the limit,
and that a rotation without failures leaves no active file, which the record that was waiting needs if it is a long
one. The size of a file is the number of places in its records, a cardinality, so that appending, cutting and
comparing files are lemmas about finite sets.

*j1939_transport.* `Wired` says what may still be on the wire of a pair, `Remembered` what has been heard, and `Linked`
that an open session has taken in exactly that, unless an announce was missed, and that a transfer heard so far has
its session unless `max_sessions` others announced since. The second half rests on `Aged`: every younger session's
pair announced since this one's did, so an eviction of the oldest is counted against it. `Counted` ties the buffer's
length to the packets received.

## 6. Only model-checked

- Claims that are violated (section 3, disagreements); their runs show a counterexample.
- Liveness under fairness and `ENABLED`: every call returns, the queue drains, flushes and destructors finish. They are
  out of the proof system's reach, as is induction over data. No module declares a RECURSIVE operator, so that each can
  be proved about.

## 7. Plan

Done: the models and runs above; the proofs of section 5, which leave no safety property that a passing run checks
without a theorem.

Left to model: the manager's closed phase (calls after shutdown), the sequential containers against functions,
`interval` and `rate_limiter`.

## 8. Not modelled, and why

- Memory orders weaker than sequential consistency. The one place where it may matter is noted as a hazard
  (`m_dispatching` stored with release before a relaxed compare-exchange).
- What user code does inside a callable's destructor. Exceptions thrown by slots: `emit` is `noexcept` and terminates.
  `emit_blocker`, a scope guard around `block`.
- `registry::clear` called by a listener or by the callback of a view, a callback that polls its own alarm: outside the
  preconditions or without end.
- Writes to disk that fail half-way: `fwrite` and `fflush` in `RotatingFile` take whole records.
- `interval`, `countdown`, `stopwatch`, `rate_limiter`: polled values over a clock without callbacks; `interval`
  keeps its grid as the alarm does.
- Numerical code (`math`, `geometry`, `filter`, `random`, `algorithm/numerical`): floating point.
- Codecs and parsers (`serialization`, `can` codec and DBC), the formatters of every module (`format.hpp`): data
  transformations without control worth a state machine. They are most of the code's lines; the models cover its
  control.
- The remaining containers and `utility`: sequential structures, candidates for later refinement checks.
- Calls into the kernel (`gpio` character devices, SocketCAN) and console output.
