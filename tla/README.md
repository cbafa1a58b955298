# Verification of picodroid-rs

TLA+ models of the concurrent and fault-tolerant core of picodroid, the TLC
configurations that check them on small instances, and proofs that TLAPS checks
for every instance. Paths are relative to the repository; `core/` stands for
`crates/picodroid-core/src/`, `rp/` for `platforms/rp/src/`.

1. [The system](#1-the-system)
2. [The modules and how they compose](#2-the-modules-and-how-they-compose)
3. [Each module and the code](#3-each-module-and-the-code)
4. [Runs, bounds and what they show](#4-runs-bounds-and-what-they-show)
5. [Fairness](#5-fairness)
6. [Proofs](#6-proofs)
7. [Disagreements between code and documentation](#7-disagreements-between-code-and-documentation)
8. [What is only checked, and what is not modelled](#8-what-is-only-checked-and-what-is-not-modelled)
9. [Plan](#9-plan)

To repeat everything: `tlc -config MCRunLock.cfg MCRunLock` (and so on for each
row of the table in section 4), and `tlapm RunLockProofs.tla`,
`tlapm ParkHandshakeProofs.tla`, `tlapm FlashPathProofs.tla`,
`tlapm AppSwitchProofs.tla`, `tlapm MonitorStoreProofs.tla`,
`tlapm ThreadRegistryProofs.tla`, `tlapm ObjectHeapProofs.tla`,
`tlapm MainExecutorProofs.tla`.

## 1. The system

picodroid runs Android-like Java apps on a microcontroller. Java is interpreted
by tasks of FreeRTOS; apps live in a region of the XIP flash and are installed
over USB by a debug bridge while the system runs.

| component | state it keeps | operations | what is hard |
|---|---|---|---|
| run lock, `crates/pd-rtos/src/run_lock.rs` | a recursive kernel mutex, `HOLDER` | `Held`, `Unlocked` guards around every blocking seam | the only protection of the shared heap; aborted waits; equal-priority starvation |
| Java monitors, `core/monitor_store.rs` | a table of owner, depth and mutex per object | enter, exit, save/restore for `Object.wait`, prune after a collection, release of a task's monitors | handles used outside the section; recursion against kernel counts; app stop in the middle |
| thread registry, `core/threads.rs`, `core/native_handler/threads.rs` | slots with task, `Thread`, flags, park | start, bind, park, interrupt, notify, join, terminate, stop | slots, task handles and object ids are all reused; wake reasons set between poll and block |
| park handshake, `rp/boot_tasks.rs`, `rp/pdb/{coordinator,pending}.rs` | three flags, a thread count, two notifications | stop, drain, park, release, cancel | two tasks of different priority on one core; stray notifications; timeouts; blocking reports |
| app region, `crates/pd-install`, `core/packages.rs`, `core/packages/plan.rs`, `crates/papk-format` | flash sectors, the directory of the last scan, the running image | install, upgrade, compact, evict, uninstall, scan, cleanup, reflash | a power loss at any flash operation; partial failure; stale directory |
| app selection, `core/packages.rs`, `rp/boot_tasks.rs` | the image, the running package, a pending launch, `launcher_exits` | `boot_image`, `next_image`, `request_launch`, `set_running` | launches, headless runs, refused installs and uninstalls all decide what runs next |
| main queue, tick source, scheduled executor, `core/executors/`, the SDK's `MainScheduledExecutor` | a bounded queue and its root shadow, `TICK_IN_QUEUE`, a table of deadlines with generations, futures | post, tick, wake, drain; schedule, cancel, fire, shutdown | queue full; ids of reused slots; a cancel from another task; coalesced ticks |
| background pool, `core/executors/background_pool.rs`, `core/bg_worker.rs` | a bounded queue, workers | submit, take, drop at a stop | workers outlive an app stop |
| serial worker (file system task), `core/executors/serial_worker.rs` | a queue of stack contexts, a done flag | submit and wait | a latched notification; a context on a waiter's stack |
| lifecycle and activities, `core/lifecycle/`, `core/native_handler/state.rs` | activity stack, pending operations, view trees, main loop | start, finish, result, recreate, reclaim, teardown | callbacks that start or finish activities; roots of what native code still uses |
| services, `core/service_lifecycle.rs` | the registry, the connection table | start, stop, bind, unbind | order of callbacks; the last client leaves in the middle |
| alarms and manifest broadcasts, `core/{alarms,broadcasts}.rs` | a table that outlives apps, a horizon; marks, the delivery being made | set, cancel, poll, fire; mark, take, deliver | the owner is started for it, and may fail on the way; stale summaries; clock sets and uninstalls |
| garbage collector and heap, `crates/jvm/src/{gc,object_heap}` | descriptors, one arena of fields, list buffers, iterators, shadow roots | allocate, grow, clone, mark, sweep, compact | native roots; ids reused at once; spans that grow and slide |
| interpreter, `crates/jvm/src/interpreter` | the frames of each task, the floors of its nested runs, initialised and erroneous bits | call, return, upcall from a native, initialise, throw and unwind, hard error | an exception, a depth limit or an exhausted heap in the middle of an initialisation or of an upcall; monitors of the frames that go |
| core-1 park, `rp/hal/rp/core1_park.rs` | cross-core flags | park, unpark around each flash operation | cross-core spin with interrupts off |
| debug bridge protocol, `crates/pd-pdb`, `crates/pdb-protocol` | framing | commands | resynchronisation after a broken transfer |
| native heap, `crates/heap4` | a free list | allocate, free | splitting and merging |
| parsers, codecs, graphics, drivers, network | various | pure functions, or registers | mostly sequential data |

How they meet. A **task** interprets only while it holds the **run lock**, and
gives it up around every call that blocks: monitor waits, parks, queue receives.
**Monitors** and the **registry** are reached from Java natives under the run
lock, in atomic sections (scheduler suspended) for the table and outside them
for the kernel call. A **collection** frees `Thread` objects and monitors that
no root of the registry and no frame reaches. The **debug bridge** task
(`pdb_task`, higher priority, same core) raises `STOP_JVM` and a park request;
the supervisor (`jvm_task`) lets the app return, aborts the waits of its
threads, drains them, and parks; only then does the **installer** erase flash.
The supervisor keeps the slice of the app that was stopped, so that a refused
install can resume it; a successful one resets the chip, and the boot scan
rebuilds the **directory** from flash alone.

What makes each correct, in a sentence:

* run lock: at most one task is in the interpreter, no task blocks with the
  lock, and a task that asks gets it;
* monitors: at most one task is in the scopes of an object, table and kernel
  agree, no handle dangles, a finished thread holds nothing, a stop drains;
* registry: every live thread is found under its own object and task, whatever
  is reused around it, and no wait sleeps through its reason to end;
* handshake: flash is written only under a parked core with no thread of the
  app alive; every wait has a wake; a refused install gives the app back;
* region: a commit page always has a whole image behind it; no page is
  programmed twice; a power loss anywhere costs no app but the one that was
  being replaced in place or slid; a reported success survives the reboot;
* flash path: nothing fetches from flash while it is written, two operations
  never overlap, and a submission is served once, while its frame lives;
* main executor: the statics mirror the queue, an id names its own deadline or
  nothing, what is over never fires, what is posted runs;
* lifecycle: every Activity gets Android's order of callbacks, nothing is left
  half done between turns, a Service lives exactly as long as it is needed;
* heap: an object keeps what the program put in it for as long as it can be
  reached, and a sweep frees the rest;
* frames: every frame a run leaves behind gives its monitor back and no run
  touches its callers' frames; a class is initialised once, superclass first,
  and is erroneous exactly when its initialiser failed;
* app switch: the running app is in the directory, an alarm is kept until it is
  fired in its owner, replaced or given up, and nothing due waits for ever.

`PROJECT.json` lists every component and, under "hazards", where in the code
each of these can go wrong and which property would notice.

## 2. The modules and how they compose

```
 JavaExclusion          what the run lock promises: who interprets, one at a time
      ^  implemented by (TLC: ImplementsExclusion; proof: RefinesExclusion)
   RunLock              guards, kernel mutex, ready list          RunLockProofs

 MonitorStore           monitors, collector, app stop     MonitorStoreProofs
 ThreadRegistry         registry, parking, reuse          ThreadRegistryProofs
                        both take `java`, the interpreting task, from JavaExclusion
 JavaHeap               the heap as a Java program sees it
      ^  implemented by (TLC: ImplementsJavaHeap; proof: ImplementsHeap)
 ObjectHeap             descriptors, arena, side buffers,       ObjectHeapProofs
                        collector

 FrameStack             frames, nested runs, class initialisation, exceptions

 MainExecutor           main queue, ticks, deadlines,         MainExecutorProofs
                        futures

 ActivityContract       Android's order of callbacks
      ^  ContractSpec
 AppLifecycle           stack, services, main loop
      |  extends PendingOps   the queue of pending operations

 SerialService          what submit promises
      ^  ServiceSpec (proof: ImplementsService)
 FlashPath              submitters, file system task, core-1 park  FlashPathProofs

 AlarmContract          what AlarmManager promises
      ^  AlarmsKept (proof: KeepsContract)
 AppSwitch              supervisor, launches, alarms,            AppSwitchProofs
                        manifest receivers
      |  extends AlarmTable   the table of alarms and its horizon

 ParkHandshake          jvm_task and pdb_task, flags              ParkHandshakeProofs
      |  its FlashParked is what AppRegion assumes of the running core
 AppRegion              flash, directory, install, boot
```

The composition is assume/guarantee. `RunLock` is shown to implement
`JavaExclusion`; `MonitorStore` and `ThreadRegistry` change their `java`
variable only as `JavaExclusion` allows (taken when nobody has it, given up at a
blocking point), so they need not carry the ready list of the kernel, and the
steps of `MainExecutor`, `AppLifecycle`, `ObjectHeap`, `FrameStack` and
`AppSwitch` are the code between two places where the lock is given up.
`ParkHandshake` shows that while the installer is between `wait_for_park` and
the release, nothing runs from flash on core 0; `FlashPath` that nothing does on
core 1 while an operation has XIP off. `AppRegion` therefore has no step of an
app in an install. What a stop wakes is split between `MonitorStore` (a task in
a monitor wait) and `ThreadRegistry` (a task in a park), and what the UI task
does with a stop is in `MainExecutor` (the queue) and `AppLifecycle` (the loop).
`AppLifecycle` is one run of one app; `AppSwitch` takes a run as a few steps
(create, turns, teardown) and models what decides which app runs next.

`MC*.tla` extend a module for TLC and define symmetry sets, boards and apps.

## 3. Each module and the code

**`RunLock`** (`crates/pd-rtos/src/run_lock.rs`, the blocking seams of
`lib.rs`). State: `HOLDER`, the kernel mutex, its waiters, the ready list of the
tier, and for every task its place in `take`/`give` and its stack of live
guards. Actions: `Acquire`, `DropHeld`, `Unlocked`, `UnlockedForNone`,
`DropUnlocked` are the guards; `TakeReturnsFalse`, `TakeLock`, `TakeStore`,
`GiveClear`, `GiveUnlock`, `GiveYield` the statements of `take` and `give`;
`Block` a blocking seam; `Wake`, `AbortDelay` and `Rotate` the kernel. A give
readies the longest waiter without handing it the mutex, as FreeRTOS does, so a
waiter may find it taken again; an aborted wait loops. `LockCreated` covers
`init` finding no memory for the mutex: then every guard does nothing and the
properties claim nothing.

**`MonitorStore`** (`core/monitor_store.rs`; `Object.wait`, `Thread.start` and
the end of a thread in `core/native_handler/threads.rs`; the stop in
`rp/boot_tasks.rs`). An enter is three steps as in the code: `Enter` (find or
create, in a section), `KernelLock`/`KernelBlock`/`EnterFails` (outside), and
`Record` (in a section). `Wait` gives all levels back (`SaveAndRelease`), parks,
and `Reacquire` takes them one by one. `Collect` prunes what no task roots.
`frames` is the ghost of javac's `monitorenter`/`monitorexit` nesting. The
supervisor's `RequestStop .. Boot` is the stop of an app and the start of the
next one. A `Disciplined` app takes its locks in key order and keeps its UI task
out of monitors; an undisciplined one does as it likes.

**`ThreadRegistry`** (`core/threads.rs`, `core/native_handler/threads.rs`). The
table is a function of slots, as in the code. `Children` are kernel task
*handles* and `Objs` are heap *ids*: both are reused as soon as their owner is
gone, and an id as soon as no root reaches the object (`Reachable`), which is
the reuse that `thread_start0`'s comments tell of. A section that wakes tasks
leaves them in `to_wake`, and `Notifies` sends the notifications one at a time
after it. A park is `begin_park`, then a loop of `poll_park`, the look at the
stop flag and the wait, each a step. `StrayNotification` is the notification of
another subsystem.

**`ParkHandshake`** (`rp/boot_tasks.rs`, `rp/pdb/coordinator.rs`,
`rp/pdb/pending.rs`, the order of calls in
`crates/pd-install/src/orchestrator.rs`). Both tasks run on core 0 and
`pdb_task` has the higher priority, so an action of `pdb_task` goes from one
blocking call to the next, an action of `jvm_task` makes one access to a shared
flag, and `jvm_task` steps only where `pdb_task` is `Blocked`. `Faults` chooses
what the environment does: apps that end by themselves, seconds that pass
without a park, a host slow to read an answer.

**`AppRegion`** (`crates/pd-install`, `core/packages.rs`,
`core/packages/plan.rs`, `crates/papk-format/src/flash_image.rs`). Flash is a
function of sectors; a sector holds a header, a commit page, a receipt, or a
part of an image. `todo` is the queue of flash operations the code has decided
on; `FlashStep` makes one of them, and `PowerLoss` may come between any two.
`Scan` is the region scan with its skips (a header hides its whole span),
duplicates, runs that name a system app and the bounded list of stale
runs; `plan_install`, `Compaction` and
`MoveRun` are the planner and the compactor; `Install .. Reset` the installer;
`Boot`, `Cleaned`, `Booted` the boot; `Reflash` a new firmware image with a
baked app. Two ghosts make the properties sayable: `erased` (listed runs that
this install erased) and `owed` (what the next boot may list).

**`FlashPath`** (`core/executors/serial_worker.rs`, `core/fs`, `rp/hal/rp/flash.rs`,
`rp/hal/rp/core1_park.rs`). Java tasks `Submit` a pointer to a context on their
own stack and then loop over `CheckDone` and `WaitNotification`; `Stray` is
anybody else's notification. The file system task does `Receive`, some flash
operations, `RunEnds` (the done flag), `NotifyWaiter`. An operation of either
user of flash is `RequestPark`, `NotifyParker`, `DisableXip`, `EnableXip`,
`ClearRequest`, `Released`; the parker of core 1 is `ParkerTakes`,
`ParkerParks`, `ParkerSees`, `ParkerLeaves`. Core 0 runs the highest priority
that is ready (`FsRuns`, `PdbRuns`, `SubmitterRuns`), and with XIP off only the
task that turned it off. `blocks` picks the other kind of worker, whose closures
may block. `SerialService` says what `submit` promises.

**`MainExecutor`** (`core/executors/main_queue.rs`, `scheduled.rs`,
`tick_source.rs`, the loop of `core/lifecycle/mod.rs`, and the SDK's
`MainScheduledExecutor`, `ScheduledFutureTask`, `FutureTask`). A word of the
queue is a tick, a wake or a Runnable; the word the UI task has popped is in
`hand`, since the pop happens without the run lock. A synchronized block or a
native call of a Java task is a step; `proc` says which one is next. Time is the
ms left to each deadline. A generation counts to `Generations` and wraps; the
history `age` counts how often the slot of an id that is held was freed since.
`Swept` is the loop of `fire_due` over the slots: the table and the queue after
each turn. `ShadowExact` says by a map of positions that the root shadow is the
queue without its ticks and wakes, `InOrder` that a step puts words behind the
others, takes the first one, or ends the app.

**`AppLifecycle`** with **`PendingOps`** (`core/lifecycle/mod.rs`,
`activity_stack.rs`, `core/service_lifecycle.rs`, `core/native_handler/state.rs`,
`app_services.rs`). A handler of the framework calls into Java at every
callback, and Java may queue operations there, so a handler is a list of steps,
`todo`, in which each callback is a step of its own; what runs between two
callbacks is one step. Calls of Java (`JavaCalls`) come only inside a callback.
`life` is the history of callbacks that `ActivityContract` constrains. `Apps` is
a set of behaviours: the calls that one app may make.

**`ObjectHeap`** (`crates/jvm/src/object_heap`, `crates/jvm/src/gc`,
`crates/jvm/src/interpreter/ops_invoke.rs`). `objects` are descriptors: class,
offset, count and capacity of a span of `fields_arena`; an object whose span is
too small moves to a longer one at the end, and one that finds no slot gives its
span back (`Refused`). A list has the number of its
buffer in a field and its elements in `list_bufs`; an iterator has its state in
`iter_states`. A collection is `ScanRoots`, `Mark`, `Sweep`, and `Slide` in
slices of `SLICE_ENTRIES`; it may start at an allocation that fails and at a
safepoint. `upcalls` are natives that called Java, each with the mark at which
it will cut the one stack of `shadow_roots`. `JavaHeap` has no offsets, buffers,
marks or collections: an object has fields, a list has elements, and an object
is there while it can be reached.

**`FrameStack`** (`crates/jvm/src/interpreter/{mod,ops_invoke,ops_reflect}.rs`,
`crates/jvm/src/static_fields.rs`). A step is one instruction together with the
handler of the exception it raises. `bases` are the floors of the activations of
`Executor::run`: an upcall or a reflective construction opens one above the
frames of its caller, and what leaves it is in `flying` until the native around
it has dealt with it (`Propagate`, `Leave`). `Unwind` is `handle_exception` (both
searches, the wrapping at the outermost `<clinit>`, the erroneous classes),
`Deliver` what the loop does with its result. `Initialise` is
`ensure_class_initialized_at` with what becomes of `pending_clinit_frames`: the loop
pushes them, or `construct` runs them by `run_frames`; `Fresh` and `Queue` are the
chain and the order of its frames. What the try blocks around an
instruction catch is chosen when a frame leaves the instruction for another
frame. `abandoned`, `clinits`, `completed`, `dropped` and the `begun` of a frame
are history. `Faults` names what else may go wrong.

**`AppSwitch`** with **`AlarmTable`** (`rp/boot_tasks.rs`, `core/packages.rs`,
`core/alarms.rs`, `core/alarm_events.rs`, `core/broadcasts.rs`,
`core/broadcast_events.rs`, `core/lifecycle/mod.rs`). `pc` is where the JVM task
is between two calls into Java. `NextImage`, `Load`, `Refused` are the
supervisor; `CreateFails .. Teardown` a run that shows no Activity;
`DispatchAlarms`, `DispatchBroadcasts`, `Drain` the turn of one that does. A
generation is only ever compared with the value it had, so `seen`, `moved` and a
row's `asked` are booleans. A clock set, the passing of time and the request of
a park come where the JVM task looks at them next: anything between is the same
behaviour. `AlarmTable` has the operators that `alarms.rs` has: `decide` is
`Table::decide`, `HorizonOf` is `Horizon::of`. `AlarmContract` says what
`AlarmManager` promises, and nothing of how an owner is started.

## 4. Runs, bounds and what they show

| run | configuration | distinct states | what it shows |
|---|---|---|---|
| `run_lock` | `MCRunLock.cfg` | 35 thousand | one interpreter, truthful HOLDER, no blocking while holding, guards nest; implements `JavaExclusion`; a task that asks for the lock gets it |
| `monitors` | `MCMonitorStore.cfg` | 1.1 million | table against kernel, valid handles, scopes held, exclusion, quiet stop, nothing left behind |
| `monitors_stop` | `MCMonitorStoreStop.cfg` | 128 thousand | with a background worker and spawns that fail, every stop of a disciplined app drains |
| `threads` | `MCThreadRegistry.cfg` | 1.6 million | threads stay registered, lookups unique, parks end for their reason and leave nothing behind |
| `park` | `MCParkHandshake.cfg` | 12 thousand | flash is written only under the park, with the stop up; every sleep has its wake; without timeouts and blocking reports a parked `jvm_task` is let go |
| `region` | `MCAppRegion.cfg` | 1.8 million | all of the region's safety: a board of two apps, the same with a system app, and one of a single app whose link fails anywhere, with power losses at any operation and a reflash |
| `main` | `MCMainExecutor.cfg` | 479 thousand | the statics mirror the queue, an entry in flight has its run, ids of a reused slot name their own entry until the generations come round; what is over is quiet, what is posted runs, a stop ends the loop even past a full queue |
| `flash` | `MCFlashPath.cfg` | 70 thousand | core 1 spins whenever XIP is off, one operation at a time, frames outlive their use; implements `SerialService`; every submission and operation ends |
| `lifecycle` | `MCAppLifecycle.cfg` | 325 thousand | Android's order of callbacks (`ActivityContract`), nothing half done at rest, native locals rooted, Services as long as needed, the queue drains |
| `frames` | `MCFrameStack.cfg` | 214 thousand | runs nest and monitors go with their frames; initialisation is once and in order; the two-pass unwind is the JVMS's frame-by-frame one; callers' frames are untouched |
| `heap` | `MCObjectHeap.cfg` | 733 thousand | spans apart, buffers owned, references live; implements `JavaHeap`; a sweep leaves exactly what can be reached |
| `apps` | `MCAppSwitch.cfg` | 128 thousand | the statics of the app switch agree; implements `AlarmContract`; no due alarm and no manifest delivery waits for ever |

Several named parts are conjoined into one property where they fail for one kind
of reason and hold at the same moments: `LockSafe`, `TableTrue`, `RegistryTrue`,
`ParksTrue`, `DirectoryMatchesFlash`, `AppsSurvive`, `QueueMirrored`,
`EntriesTrue`, `FlashAlone`, `SettledAtRest`, `StackTrue`, `HeapSound`,
`SwitchTrue` and so on. Each part is a definition
with its own comment in the module.

Bounds, and why they are enough:

* `RunLock`: two tasks, three nested guards. The lock's words tell "me" from
  "another", so a third task adds a longer waiter list and nothing else; the
  proofs cover any number of tasks and any nesting. Three guards give
  `Held, Unlocked, Held` and every inner guard that finds nothing to do.
* `MonitorStore`: the UI task and two threads over two objects, two nested
  scopes, two app runs: recursion, a lock order and its reverse, a waiter and a
  notifier, and a stop with a second app after it. For the drain: one thread, one
  background worker, one run.
* `ThreadRegistry`: main, two task handles, two object ids, two slots, one
  monitor and two waits a run: every one of slot, handle and id can be reused
  while its former owner is still ending, and with two slots for three tasks the
  table is full.
* `ParkHandshake`: two waits of `wait_for_park` (15 in the code) and two
  threads: the last wait differs from the others, and the last thread from the
  others. No other counter; the space is closed under any number of installs.
* `AppRegion`: six sectors, runs of two or three sectors, two packages. Two runs
  of two leave a hole of either size; three and two leave one sector; an
  in-place upgrade may grow or shrink; a slide by one overlaps. Three installs,
  one reflash, and one power loss (two on the single-app board). The boards are
  chosen in `Init`, and each has its own number of losses and says whether its
  link may fail during an in-place upgrade (`lossy`; a board of two apps where
  it may is in section 7) and which packages its firmware links in as system
  apps. The directory's stale list is four runs here: it cannot overflow with
  six sectors, so the overflow itself is not covered.
* `MainExecutor`: a queue of two words, one deadline slot, two futures (one that
  is one-shot or fixed-rate, one with a fixed delay: `KindsOf`) and one caller
  besides the UI task: the slot is freed and taken again while ids to it are
  held, and ticks, wakes and Runnables fill the queue. Two generations (the code
  has 256): they come round while an id is held, which `CameRound` excepts, and
  before that a stale id meets its slot taken again. One configuration checks
  safety and, under FairSpec, liveness.
* `FrameStack`: four frames, one upcall, one monitor, a superclass and two
  subclasses, one of them without a `<clinit>`. Two initialisers queue at once,
  a class can be needed inside the initialiser of its superclass, an upcall can
  start there, and every limit is met with frames below it. With a third class
  that has a `<clinit>` and no superclass the run also passed (593 thousand
  states). One task, no `TryFirst`, and of `Faults` only a hard error and an
  exhausted heap: what else is possible is in the table of section 7.
* `FlashPath`: three submitters over a queue of two, one operation per closure:
  one being served, two queued, one that waits for room. The proofs cover any
  number of each.
* `AppLifecycle`: four calls an app, in four behaviours (navigation; binding
  across screens; starting and binding; a launch and a stop), a stack of three, two
  Service classes over a registry of one, one connection object, a queue of two: each
  table can be full. `MaxCalls` is the one bound the code does not have; four
  calls are enough for a launch, a nested launch, a result and a finish below it.
* `ObjectHeap`: two slots, three fields, spans of at most two, two list buffers
  of one element, one iterator step, one upcall, slices of one entry. An
  object grows into a span that does not fit, a slot is recycled, a
  clone or an object with fields is refused for want of a slot, and a slide moves
  a span onto its own tail. `VIEW` leaves out fields that no span covers and the
  marks of a collection that has given up, which nothing reads.
* `AppSwitch`: a launcher and two apps, or one flashed app and no launcher; two
  alarm slots, one per package, two attempts as in the code, one mark. One ms and
  a clock that may be set back or forward make each alarm due, not due and due
  again. Three calls: of apps, keys and the host together (alarms, launches,
  uninstalls, clock sets, parks, resets). The safety part was also run with four calls
  and two trigger times (2.0 million states).

`Kinds` limits what images may be: `ok`, `invalid` (fails `validate_structure`),
`collides` (passes it, and a class name collides with the framework's).
`LifoUpcalls` limits `ObjectHeap` to upcalls that end in reverse order, `Cloned`
to clones of plain objects (the code clones a list too) and `EmptyRefusals` to
refusals of objects that have fields, `Faults` the environment of the handshake
and what goes wrong in `FrameStack`, whose `TryFirst` limits where a `<clinit>`
may begin. An exclusion of this kind is in a configuration, by name, and never
in a module.

Deadlock is checked for `RunLock` and `ParkHandshake`, which must never stop. An
app may deadlock itself (`MonitorStore`), wait for nobody (`ThreadRegistry`) or
be over (`MainExecutor`, `AppLifecycle`, `FrameStack` after a hard error);
elsewhere the bounds run out or an idle
state is legal (`AppRegion`, `FlashPath`, `ObjectHeap`, `AppSwitch`). Their
configurations say so.

Every property of every run has at least one mutant of a mapped
definition, a plausible slip in the code it models (`..._Recursive`,
`..._OneLevel`, `..._BySlot`, `..._SamePriority`, `..._Unchecked`, ...) written next to
the definition it replaces, under which the property fails in that very run.

## 5. Fairness

* `RunLock`: the processor runs the head of the tier (WF of a running step).
  Code inside the interpreter reaches its next blocking point (SF of `Unlocked`
  while holding): every seam that blocks is wrapped, and the interpreter is
  preempted by the tick only into its own tier. A task outside goes on to take
  the lock (SF of `Acquire`). Wakes of higher-priority tasks, which rotate the
  tier, stop eventually: otherwise the order of the ready list is whatever they
  make it. Nothing is assumed of the mutex: `give`'s yield has to do the work,
  and without it (`GiveYield_Omitted`) the property fails.
* `MonitorStore`: the kernel seam, the start and the end of a thread or a worker
  are strongly fair, as the run lock (by `TakerGetsLock`) and a free mutex are;
  its exit at the stop check is strongly fair while the stop is up; the
  supervisor is weakly fair. Nothing is assumed of the app: it may stay in a
  scope, or in a wait, for ever.
* `ParkHandshake`: `pdb_task` is weakly fair, since each of its reads has a
  timeout; `jvm_task` and the end of a thread are strongly fair, since they run
  whenever `pdb_task` blocks. No command is assumed to come.
* `MainExecutor`: the steps of the UI task are weakly fair: it gets the run
  lock and its callbacks return. Neither callers nor ticks are assumed to come.
* `FlashPath`: the worker, the parker and the steps of a flash operation are
  weakly fair. The worker outranks everything else on core 0 and the parker on
  core 1; an operation in progress has interrupts off. Neither a submitter nor
  an install is assumed to come.
* `AppLifecycle`: `UITask` is weakly fair: callbacks return, and a turn comes with
  every tick. What Java calls is not assumed, and the bound `MaxCalls` is what
  makes an app that starts Activities for ever stop.
* `AppSwitch`: the disjunction `Supervisor \/ App` is weakly fair, which is one
  sequential task that is never held up. In particular `CreateReturns` is
  not assumed: an owner may fail on its way in each time. Environment steps are
  bounded by `MaxCalls`, so `WorkEnds` says what happens once apps stop
  interfering; an app that re-arms an alarm in the past at every turn can starve
  another's, in the model as in the code.

## 6. Proofs

**`RunLockProofs`** assumes `TasksAssumption` (a finite set of tasks, of any
size, without 0), `NestingAssumption`, and `LockCreated` in each theorem: boot
created the mutex.

The safety properties are not inductive: they speak of tasks that are between
calls, and say nothing of one that is half way through `take` or `give`. The
inductive invariant adds, for each place a task can be in, who owns the kernel
mutex and what HOLDER reads (owner and HOLDER agree except between the mutex and
the word), that its guards nest, which guard operation the call in progress
belongs to and what it will do to the stack, and that the ready and waiter lists
hold each task at most once and on the right list. Lemmas about `HoldsAt` under
push and pop carry the nesting over. Results:
`TypeCorrect`, `MutualExclusion`, `HolderIsTruthful`, `NoHoldAndWait`,
`ScopesNest`, and `RefinesExclusion`: every step is a step of `JavaExclusion` or
a stutter.

**`ParkHandshakeProofs`** assumes `RoundsAssumption` and nothing of the faults.
The inductive invariant `ParkInv` adds to the two properties four facts
(`FlagsOK`): the parked flag is up only between `jvm_task`'s store and its
release; between the end of the drain and the next run no thread of an app is
left; the request stands from the command to its cancellation; and the installer
flashes only under the parked flag. Without the second, a thread of an earlier
app could be alive under the flag; without the third, a stale flag of an earlier
install could be taken for this one's. Results: `ParkTypeCorrect`,
`FlashUnderPark`, `NoMissedWake`, for any number of waits and threads.


**`FlashPathProofs`** assumes `TasksAssumption` (the file system task, the
bridge's and the submitters are different tasks) and `BoundAssumption`, for any
number of submitters, any queue and any number of operations. The inductive
invariant has three parts beside the types. `ScheduleInv`: while the bridge is past
its request, the worker waits at an empty queue, or is of the kind that does no
flash operation; this is where the priorities and the shared core enter, and
without it `OneFlashOp` is not inductive. `HandshakeInv`: for each stage of the
operation under way, where the parker is and what the words of the handshake
read, so that the `PARKED` of the last operation is never taken for this one's.
`FrameInv`: the frames in the queue are distinct, of calls in progress and not
done, and none is the one in the worker's hands. Results: `FlashTypeCorrect`,
`XipOffParked`, `SingleFlashOp`, `FlashIsAlone`, `LiveFrames`, and
`ImplementsService`: every step is a step of `SerialService` or a stutter.

**`AppSwitchProofs`** assumes `SwitchAssumption`, `TableAssumption` and
`FreeAssumption` (a free slot is no alarm), for any finite set of packages and
receivers, any directories, any size of the table and any number of calls.
`SwitchTrue` is not inductive: it says nothing of a device between two runs, and
of the table only what a poll leaves behind. The inductive invariant `IInv` has
five parts beside the types. `ImageInv`: what is loaded is installed, and what
runs is what is loaded. `IdleInv`: an idle device has nothing loaded, and its
launcher is gone or has left twice; exits are counted of a launcher that is there.
`MarkInv`: the marks fit their list, and the package that is loaded is not in
it. `TableInv`: the horizon is that of the table, and once the directory's
generation has been seen every owner of a row is installed. `AskedInv`: at most
one row has asked for a start, in the run whose end it asks for. `HorizonTrue`
carries the polls: a horizon that is not due summarises a table with nothing to
decide.
The refinement needs two facts more (`KeptInv`): one row for each owner, key and
clock, and no more than `PER_PACKAGE` rows of one owner. `StepSteady` then says
of every step that each row keeps its promise or makes one of the moves of the
contract. Results: `SwitchSafe`, and `KeepsContract`: every step is a step of
`AlarmContract` or a stutter.

**`MonitorStoreProofs`** assumes `TasksAssumption`, `KeysAssumption` and
`BoundsAssumption`, for any number of threads and objects and any nesting. Two
conditions are hypotheses of the theorems and not assumptions of the module,
because the code does not establish them; section 7 says how to see them fail.
`NoWorkers`: a background worker is not drained before the table is dropped
(`core/monitor_store.rs:231`) and may use a handle that has gone.
`NoFailedSpawn`: a failed `Thread.start` releases the monitors of its caller
(`core/threads.rs:231`). `TableTrue` speaks of the table and the kernel, and not
of who may act on them. The inductive invariant adds that the interpreting task
has the run lock (`JavaInv`), that a key without an entry has nothing recorded
(`AbsentInv`, or a new entry could inherit an owner), that a task that has left
is in no scope (`OutInv`), and how far the supervisor has come with a stop
(`PhaseInv`). `ScopesHeld` carries the exclusion: the depth of an entry a task
owns is the number of scopes of that object among its frames, those it is
entering or has given up in `Object.wait` apart, and it owns no other mutex. The
lemmas about `Holds` count scopes under push and pop. Results: `TableAgrees` and
`EndsClean` under `NoWorkers`, and `ScopesAreExclusive` under `NoWorkers` and
`NoFailedSpawn`.

**`ThreadRegistryProofs`** assumes `TasksAssumption`, `NamesAssumption`,
`SlotsAssumption` (a finite table that has a slot: `MAX_JAVA_THREADS` is at
least 1) and `BoundAssumption`, for any number of threads, objects and monitors,
and nothing else. That a thread is registered is not inductive, since a slot is
chosen in one section and used in a later one, and what was captured may have
been freed and taken again in between. The invariant says, for each place a task
can be in, what its captured slot, object and task handle may still be used for,
in four parts. `Control`: one task interprets, only the UI task stops the app,
and a thread that still owes a notification is not parked. `Shape`: a free slot
is blank, a task and a Thread have one entry each, a task that is not bound has
none. `Owners`: a Thread being started belongs to its starter and has an entry
that waits for its task; a bound one to its thread. `Parking`: the flags of a
park are fresh, a task in `park_loop` has a parked entry, and an entry whose
reason to end has come (stop, interrupt, notify, join target gone) has a
notification latched or owed. Results: `RegistryIsTrue`, and `ParksAreTrue`: no
park sleeps through its reason to end.

**`ObjectHeapProofs`** assumes `SizesAssumption` and `ShapesAssumption` (a new
object writes no more fields than its span has), for any number of tasks, slots,
fields and list buffers. Three conditions are hypotheses of each theorem, since
the code does not establish them; section 7 shows what happens otherwise.
`UpcallsNest`: upcalls of different tasks end in reverse order, or one task
makes them all (the shadow roots are one stack that every task cuts at its own
mark, `gc/mod.rs:295`). `PlainClones`: what the program clones is a plain
object. `NoEmptyRefusals`: no object without fields is refused a slot. The
invariant has eight parts. `Store`: spans are in the arena and apart, a free
slot is blank, nothing below `first_free` is free, and the fields of a span that
were never written are null; without the last, a count that grows over them
would expose references of a freed object. `ListsInv` and `IterInv`: a buffer
has one list, an iterator walks the buffer of a list that lives. `RefsInv`: no
reference dangles, from a root, a field, a buffer or an iterator. `UpcallsInv`:
each shadow root is the value of one upcall, at the mark it was pushed at.
`MarkInv` and `SweepInv`: what is marked has all it refers to marked or waiting,
unless the mark stack was exhausted, and a sweep starts from a closed set.
`SlideInv`: the spans up to the last one moved lie below `write_pos` without a
gap, the others above it, and the slice is the lowest of those in their order.
Lemmas say once what writing in place, growing, placing and freeing a span do to
references. Results: `HeapIsSound`; `NativesStayRooted`, that what a native
holds over an upcall is alive after it; and `CollectsExactly`: a sweep ends with
the objects that can be reached and no other, and a compaction leaves no gap.
The last needs no induction over the marking: `ReachInv` says that whatever is
marked lies in every closed set with the roots, a freed object was not marked,
and such a set keeps both properties when it is cut down to the marked ones.

`ImplementsHeap` is the refinement: `ObjectHeap` implements `JavaHeap`. `Content`
of an object depends on its fields, its buffer and its iterator's state
(`ContentIs`); `ObjectKept` says what a step must leave of these for the program
to see no change. From there each step of the specification has a lemma. One
operation of a task is the `JavaHeap` operation of the same name on the object it
names, and no other object shows a change, because `ListsInv` and `Store` keep
buffers and spans apart. Growth, marking and each slide are stutters. A step of
the sweep is one `Reclaim`: the marked objects are a set closed under what the
program can follow (`RefersSeen`), and the freed object is not in it. Some of the
program's own steps show nothing: an upcall, a return, a frame that drops what a
native still holds, and the `<init>` of a list, whose empty buffer reads as none.
The refinement needs one more invariant, `RegisteredInv`: a live iterator has its
state.

**`MainExecutorProofs`** assumes `CapacityAssumption` (the queue and the table
have a place), `NamesAssumption` (futures, lambdas and the other words of the
queue are different; a finite set of futures), `PeriodAssumption`,
`GenerationAssumption` (a generation has a value), and of `KindsOf` only its
type (`KindsAssumption`), for any number of callers, futures, lambdas, slots and
queue positions. Nothing bounds how often a slot is taken and freed.
`EntriesTrue` claims nothing once `CameRound` holds: a slot was freed as often
as a generation has values (256 in the code) while a future held an id to it,
and the id may name a stranger's entry. `age` is the history that says so.

None of the three invariants is inductive. They speak of what is queued, and not of
what a loop over the table is about to queue. The inductive invariant `Inv` adds to
the types and to `MirrorInv` (what `QueueMirrored` says):

* `PlaceInv`: where a Java task can be, and what its locals are there.
* `TableInv`: a live entry is of a future, has its kind, and is the only one.
* `ArmInv`: a future that was never armed is nowhere; one that is being armed is so by
  one task, and has no entry before its slot.
* `IdInv`: an id of a future names its entry while it has one. When the entry has
  gone, the generation of its slot is ahead of the id, by one at least and by
  `age` at most: it has not come round while `age` is less than `Generations`.
  `IdsNameOwnEntry` by itself is not kept by `arm`: it says nothing of the ids that
  name nothing now and will when the slot is taken.
* `RunInv`: how many runs of a future are on their way, and where they are among the
  ticks. A tick that waits has at most one run of a future behind it, and there is
  none behind a tick that is waiting while another is being served; an entry at
  rest has none at all. Without the position of the ticks, two fixed-rate runs
  could become three.
* `OverInv`: a task at work in `done` works on a future that is over; a cancel that
  met an arm half way is in `missed`; and a future that can still start and is not
  among the armed is nowhere.

`fire_due` is a loop, and its effect on the queue and the table is proved
without induction over data: `Swept` is a recursive function, `SweptIs` shows
that it has a value and obeys its equation, `SweepStep` that one turn keeps
`FireInv`, and `SweepEnds` takes the least slot at which it could fail. The
lemmas on sequences say what a push and a pop do to `Times` and to the position
map of the shadow (`EmbedsPush`, `EmbedsPop`). Results: `MirrorsQueue`,
`EntriesAndFuturesAgree`, `OverMeansQuiet`, and `NothingOvertakes`: `InOrder`,
the part of `PostedRuns` that is not liveness. What the properties except
(`missed`, `overrun`, `interrupted`, `CameRound`) the theorems except too;
section 7 shows what the code does there.

## 7. Disagreements between code and documentation

Places met while modelling where the code does what a comment, a document or a
plain reading of it denies. None is a run of its own; each can be seen as the
table says. "With" names the changes to the configuration: the property in the
first column as the only INVARIANT, the `SPECIFICATION` `Spec`, and no `SYMMETRY`
where a symmetric set shrinks to one element.

Monitors, threads, handshake and region:

| property | configuration | the code | the comment |
|---|---|---|---|
| `MonitorExcludes` | `MCMonitorStore.cfg` with `Children = {c1}`, `Keys = {1}`, `SpawnMayFail = TRUE`, `MaxHold = 1`, `MaxRuns = 1` | a failed `Thread.start` releases its caller's monitors (`core/threads.rs:231`) | "the thread never ran and holds none" |
| `StopDrains` | `MCMonitorStoreStop.cfg` with `Children = {c1}`, `Workers = {}`, `Keys = {1}`, `Disciplined = FALSE`, `SpawnMayFail = FALSE`, `MaxHold = 1`, under `LiveSpec`, as PROPERTY | the UI task is stopped inside a synchronized block and keeps the monitor; the drain hangs | the stop "unblocks every child task, a mutex wait included" |
| `HandleValid` | `MCMonitorStore.cfg` with `Workers = {w1}` | background workers are not drained before the monitor table is dropped; one of them then uses a deleted mutex | `monitor_store.rs:231`: "once every JVM task has drained" |
| `ResumesSameApp` | `MCAppRegion.cfg` with `Kinds = {"ok"}`, `Boards <- SteadyBoards`, `MaxInstalls = 4`, `MaxFlashes = 0` | a refused install has already moved the app that resumes | "a refused install resumes the same app" |
| `RefusedResumes` | `MCParkHandshake.cfg` with `Faults = {"timeout"}` | a timed-out park cancels the request before `jvm_task` looks, and `next_image` replaces the app | "a refused install resumes the same app" |
| `DirectoryTrue` | `MCAppRegion.cfg` with a board of two apps that is `lossy`, `losses = 0` | no rescan after a failed in-place stream (`orchestrator.rs:296`) | `orchestrator.rs:340`: the directory must not "list an app that is gone" |
| `CommittedWhole` | the same | a later compaction moves and commits the erased run (`plan.rs:262`) | `flash_image.rs:15`: "the commit page says the image behind it is complete" |
| `HigherSeqWins` | `MCAppRegion.cfg` | a baked run wins over any seq (`packages.rs:414`) | `flash_image.rs:37`: "the higher `seq` wins" |
| `WholeRunListed` | `MCAppRegion.cfg` | the new header hides the whole old run from the scan at once (`scan.rs:110`) | `plan.rs:200`: lost only from the destruction of the old meta sector |
| `SuccessInstalled` | `MCAppRegion.cfg` with `Kinds = {"ok", "collides"}` | success is reported for an image the rescan drops (`orchestrator.rs:323`) | `orchestrator.rs:309`: no device "reports success and reboots with the app gone" |
| `StopReachesApp` | `MCParkHandshake.cfg` | `clear_stop` wipes a stop raised since the last look (`boot_tasks.rs:176`) | `coordinator.rs:30`: "let the JVM task run and observe STOP_JVM" |
| `NotWedged` | `MCParkHandshake.cfg` | release, report (may block), cancel: a stale request parks `jvm_task` (`orchestrator.rs:505`) | `orchestrator.rs:297`: withdrawn so that the device is not "wedged until another install arrives" |

Executor, lifecycle and heap:

| property | configuration | the code | the comment |
|---|---|---|---|
| `NoCancelRacesArm` | `MCMainExecutor.cfg` with `Callers = {c1, c2}` | `cancel` of another task reads the id before `arm` has stored it; the cancelled future stays in the table | `ScheduledFutureTask.java:36`: "no cancel can race the arm" |
| `FixedDelayContinues` | `MCMainExecutor.cfg` | a run that reads the id before `arm` has stored it completes nothing, and the entry stays in flight for good | `scheduled.rs:17-19`: a fixed-delay run re-arms when it completes |
| `HeldRooted` | `MCMainExecutor.cfg` | a push that finds the shadow full (the popped Runnable is still in it) records no root | `gc_roots.rs:5-10`: "each must be reported to the collector or it is swept while still reachable" |
| `FinishPopsCaller` | `MCAppLifecycle.cfg` | a queued `finish()` pops whatever is on top when it is taken (`activity_stack.rs:178`) | `Activity.java`: "Pop this Activity off the stack" |
| `FreshSlate` | `MCAppLifecycle.cfg` | a stop while the first Activity starts returns before the wipe | `service_lifecycle.rs:267`: "apps that re-enter run_application get a fresh slate" |
| `ResultRooted` | `MCAppLifecycle.cfg` | a result Intent taken off its entry is in a native local while `onRestart` and others run | `state.rs:173-175`: "rooted until delivered on pop" |
| `BindingsScoped` | `MCAppLifecycle.cfg` | a bind that is queued by an Activity which is popped first connects for nobody | `service_lifecycle.rs:6-8`: "they auto-unbind when the owner pops" |
| `NativesRooted` | `MCObjectHeap.cfg` with `Tasks = {t1, t2}`, `ArenaMax = 2`, `MaxSpan = 1`, `MaxBufs = 1`, `MaxUpcalls = 2`, `LifoUpcalls = FALSE` | upcalls of two tasks share one stack that each cuts at its own mark (`gc/mod.rs:295`) | `gc/mod.rs:186-192`: "Stack-disciplined" |
| `SpansDisjoint` | `MCObjectHeap.cfg` with `EmptyRefusals = TRUE` | a refused slot gives its span back by truncating the arena to the span's offset, which for an object without fields is 0 (`object_heap/mod.rs:435`, `:454`): every live object loses its fields | `growth_tests.rs:136`: "The refusal leaves the heap usable"; `object_heap/mod.rs:940`: "only compaction truncates" |
| `BuffersOwned` | `MCObjectHeap.cfg` with `Cloned = {"object", "list"}` | `clone()` of an `ArrayList` copies the number of its buffer, and two lists own one (`object_heap/mod.rs:671`, `native/mod.rs:1199`); the first to die frees it | `native/mod.rs:1190`: "shallow copy per the Java spec", where a cloned list has elements of its own |
| `IdsNameOwnEntry` | `MCMainExecutor.cfg` with `Futures = {f1, f2, f3}` | a generation wraps (`scheduled.rs:173`): an id that was held while its slot was freed `Generations` times names another future's entry | `scheduled.rs:21-23`: "a stale id from the Java side [...] cannot touch the new occupant" |

App switch:

| what | where | how to see it |
|---|---|---|
| A headless run that fails before `manifest_current` is asked leaves `current` set, so the next run of that package, which the user launches, is headless | `broadcasts.rs:136` ("the package whose headless run is delivering") against `:268` | `MCAppSwitch.cfg`, invariant `current # None /\ JavaRuns => current = running` |
| A headless run that is stopped for an install and resumed after its refusal starts the same image as a run of the user | `boot_tasks.rs`, the branch of a refused park | reading `Refused` |
| A park while an app leaves for a launch keeps the old image, and the launch comes after that run | as above; `pending` is not looked at | reading `Refused` |
| `attempts` counts wakes and not starts: an owner whose launch is overwritten twice by another `startActivity` loses its alarm without having run | `alarms.rs:59`: "times the framework starts an owner for one alarm" | `StartPackage` after `DispatchAlarms`, twice |
| A fired row has left the table before the upcall: an interrupt in between loses it, and a headless loop that is stopped consumes every due row | `alarms.rs`, `take_due_for` | reading `FireHeadless` |
| A clock set while the running package ends: it is the running one, so it is never marked and misses the broadcast | `broadcasts.rs`, `manifest_refresh` | `refreshed` leaves `running` out |
| The mark of a package that has been removed makes the launcher leave, and counts towards `launcher_exits` | `broadcasts.rs`; `packages.rs`, `next_image` | `DispatchBroadcasts` looks at marks and not at the directory |
| A wake whose launch finds the queue of operations full leaves a triggered row that is asked for in this run, and at the head of the table it blocks every later alarm until the run ends | `alarm_events.rs` | not in the model (its queue is never full) |
| `Application.onCreate` of a headless run may launch another package, which takes the place of the boot app | `lifecycle/mod.rs:216`: "or the boot app, is what comes back" | `StartPackage` at `create` |

Interpreter (properties of `MCFrameStack.cfg`):

| property | configuration | the code | what it denies |
|---|---|---|---|
| `UnwindsAsSpecified` | without its exemption `PassesOver` | the exception is wrapped at the outermost `<clinit>` it crosses, and a handler of Errors between two of them is passed over (`interpreter/mod.rs:392-425`) | JVMS 5.5: each initialiser fails with an `ExceptionInInitializerError` of its own |
| `InitOrder` | `TryFirst = {B}` | a queued `<clinit>` that has not begun stands at pc 0, so a try block that begins there catches its superclass's exception (`mod.rs`, `handle_exception`) | JVMS 5.5 step 7: the subclass's initialiser does not run |
| `InitOrder` | `Faults = {"prepare"}` | an allocation failure while a chain is prepared leaves the earlier classes marked and their `<clinit>` never runs | `static_fields.rs:32`: "`<clinit>` has run (or been scheduled)" |
| `InitOrder` | `Faults = {"deep"}` | a reflective construction too deep for its initialisers fails in `run_frames` (`ops_reflect.rs:185`) without marking them, as the main loop does | the same |
| `InitOrder` | `Tasks = {t1, t2}` | the initialised bit has no owner: another task uses a class whose `<clinit>` is still running | JVMS 5.5 step 2: it waits |
| `StackTrue` | `Faults = {"alloc", "reserve"}` | `enter_synchronized` takes the monitor, then the frame vector refuses to grow (`mod.rs:1027`), and no frame gives it back; `invoke_java` reserves first | `mod.rs:523`: "every exit path releases it" |

By reading, and outside its steps: a class that has no `<clinit>` stays usable
after its superclass's threw (`mod.rs:246` and `static_fields.rs:38` say
otherwise); call sites cached during a class's own initialisation keep working
once it is erroneous (`resolve_cache.rs:49`: "that can never become false
again"); the first frame of `execute` takes no monitor and does not initialise
its class; a hard error of the outermost run drops its frames without giving
their monitors back, and some callers log it and go on
(`core/lifecycle/mod.rs:871`); a `<clinit>` that a hard error of a nested run
cuts off leaves its class initialised (`dropped`); an upcall out of memory is
called again after a collection though it has run Java already
(`ops_invoke.rs:643`, "it changed nothing first").

Met in passing and outside the models: a Runnable that a background worker has
popped is rooted neither by the pool nor by a frame until `Held::acquire`
(`background_pool.rs`); `stopSelfResult` compares the start id when it is called
and stops when its operation is taken, whatever has been started in between
(`services.md:76`); an `ArrayList` whose constructor runs out of fields after it
took a list buffer takes a second one on the retry (`ops_invoke.rs:641`, "it
changed nothing first"); `clone()` of a `HashMap` shares its buffer as that of an
`ArrayList` does.

The runs say under which conditions the same properties hold:
`monitors_stop` (threads wait only for what threads and workers hold), `region`
(`SuccessInstalled` without colliding images, `CommittedWhole` without a failed
in-place stream on a board of two), `park` (prompt reports and no timeout),
`main` (`missed`: an id that was read too early; `CameRound`), `heap`
(`LifoUpcalls`, `Cloned`, `EmptyRefusals`),
`frames` (`TryFirst`, `Faults`, one task).

## 8. What is only checked, and what is not modelled

Only model-checked: all liveness (`TakerGetsLock`, `StopDrains`, `ParkEnds`,
`FlashProgress`, the liveness half of `PostedRuns`, `StopEndsLoop`,
`LoopProgress`, `WorkEnds`); `FlashStopped`; and the properties of `AppRegion`,
`AppLifecycle` and `FrameStack`. `AppRegion`'s scan folds over the region by data it
reads there, and `FrameStack` cuts its frames by a selection and collects a class's
ancestors recursively. What those return for every input is an induction over data,
which the installed provers cannot do; the bounded runs are the evidence.
`AppLifecycle` is within reach and not done.

Abstracted inside the modelled components:

* region: the bytes of an image, CRCs, page numbers inside an image sector,
  manifests, feature gates and the compatibility gate (they refuse before
  anything changes), the text of errors;
* monitors and tasks: the timed monitor lock that only tests use, priorities
  other than those that matter. Time is absent: a timeout may fire whenever its
  wait could have;
* executor: pausing and resuming the tick source and the step of its clock;
* flash path: the guard before the scheduler runs (single core, no parker);
* lifecycle: dialogs and focus groups, the resolution of an Intent to a class,
  `trim_memory::poll`, the wrap of entry tokens, the four slots of
  `hold_component`, foreground notifications. Every Activity sets its content
  view in `onCreate`; a Service is identified by its class, since there is one
  instance of each; a stop while a Service is being bound is in none of the four
  behaviours; the window closed by a host is the turn's `Leave`;
* heap: arrays, strings, maps and their views, lambdas, boxed values, the tables
  of exceptions, statics (what they keep is in the frames of the task that
  `Pass`es it), a mark stack that cannot be reserved and an iterator table that
  is full. A slot is refused when the table is at its end; the code also refuses
  one when the next chunk of the table finds no memory, which is a heap with as
  many slots as it has then. A field of a span above a truncated arena reads as
  null, as `get_field` says; writing one panics in the code and is not in the
  model. A collection is one atomic section, so its steps are not interleaved
  with anything;
* frames: exceptions are Errors or not, and nothing else of their class counts;
  block `monitorenter` (it is in `MonitorStore`), the failure to allocate the
  wrapper or to mark a class erroneous, the caches of call sites, what an
  instruction does to locals and operands. A monitor that another task holds
  blocks the call, whose waiting is in `MonitorStore`;
* app switch: the queue of operations is never full, the extras and names of an
  alarm do not matter, the three actions of manifest receivers are one mark, and
  the boot rules may name any installed package. `drop_package` of the alarm table is
  called by tests only.

Not modelled, with the reason in `PROJECT.json`: parsers and codecs (pure
functions of bytes, fuzzed by `crates/fuzz-targets`), the instruction set of the
interpreter beyond what touches objects, frames and locks, graphics and drivers
(bindings and registers), the radio and TLS libraries (third party), host tools
and board configuration, the SDK's Java sources other than the executors, the
examples, and the simulator's own host loop. Registered receivers and their
system broadcasts, the queue of the background pool, the framing of the debug
bridge and the native heap's free list are the parts left that a model would
fit; they are in section 9.

The modules stand for about 8000 lines of the implementation, close to 5 %. Most of
the rest is what the paragraph above lists: generated bindings and tables, host
tools, parsers, drawing and drivers make up the largest files, and hold
neither concurrency nor faults.

## 9. Plan

Order of importance. Modules marked * are written.

1. `RunLock`*, `JavaExclusion`*, `RunLockProofs`*: everything else rests on it.
2. `MonitorStore`*, `ThreadRegistry`*: the Java primitives above it.
3. `ParkHandshake`*, `ParkHandshakeProofs`*, `AppRegion`*: installs and boots.
4. `MainExecutor`*, `MainExecutorProofs`*: the UI task's queue, its ticks and
   deadlines.
5. `FlashPath`*, `SerialService`*, `FlashPathProofs`*: the file system task, and
   the park of core 1 under each flash operation.
6. `AppLifecycle`*, `PendingOps`*, `ActivityContract`*: Activities and Services.
7. `ObjectHeap`*, `JavaHeap`*: the heap and its collector.
8. `FrameStack`*: calls, nested runs, class initialisation and unwinding.
9. `AppSwitch`*, `AlarmTable`*, `AlarmContract`*, `AppSwitchProofs`*: what runs
   next, and why.
10. `BackgroundPool`: submission against shutdown, with `MonitorStore`'s workers.
11. The free list of `heap4` against an abstract set of blocks; the framing of the
    debug bridge after a broken transfer; system broadcasts to registered receivers.

Proofs still to do, in order: `SettledAtRest` and `LocalsRooted` of
`AppLifecycle`; the part of `StackTrue` of `FrameStack` that selects no frames.
