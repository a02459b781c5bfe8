# TLA+ specifications of poll-dancer

poll-dancer is a small C library: an event loop over epoll, kqueue or IOCP,
with descriptor watchers, timers, a cross-thread wake-up and reference-counted
loops. This directory holds TLA+ modules that follow its code, TLC
configurations that check them on small instances, and proofs that TLAPS
checks. Paths below are relative to the repository.

## 1. Inventory

| Component | State it keeps | Operations | Modelled by |
|---|---|---|---|
| Loop control and wake-up (`src/loop.c` and the wake-up of each backend) | `running`, `stop_requested`, `watcher_count`, `async_data`, the eventfd counter, `EVFILT_USER` event or empty packets, the batch the wait returned | `pd_loop_run`, `pd_loop_run_once`, `pd_loop_stop`, `pd_loop_async_send`; `loop_run` and `async_send` of each backend | `LoopWakeup` |
| Loop lifetime (`src/loop.c`) | `ref_count`, `enable_thread_safety`, `watchers[]`, `default_loop` | `pd_loop_create`, `pd_loop_default`, `pd_loop_ref`, `pd_loop_unref`/`_destroy`, `pd_loop_add_watcher`, `pd_loop_remove_watcher` | `LoopRefs` |
| Watchers over epoll (`src/watcher.c`, `src/platform/epoll.c`) | `fd`, `events`, `active`, `platform_data` of each watcher; `registrations[]`; the kernel's epoll set | `pd_watcher_create`, `_start`, `_stop`, `_update`, `_destroy`; `epoll_watcher_register`, `_update`, `_unregister`; dispatch | `Epoll`, `Registrations` |
| Timers over epoll (`src/timer.c`, `src/platform/epoll.c`) | `active`, the timerfd and its internal watcher | `pd_timer_create`, `_start`, `_stop`, `_destroy`; `timerfd_callback` | `EpollTimers` (extends `Epoll`) |
| kqueue backend (`src/platform/kqueue.c`, `src/watcher.c`, `src/timer.c`) | filters per ident, `registrations[]`, two-phase timers | the `kqueue_*` operations | `Kqueue`, `Registrations`, `LoopWakeup` |
| IOCP backend (`src/platform/iocp.c`, `src/watcher.c`, `src/timer.c`) | the completion port, `events[]`, `loop_thread_id`; per watcher the `OVERLAPPED`, `pending_operation`, `stopping`, `bytes_available`; per timer `started`, `destroyed` | the `iocp_*` operations, the drain barrier, the pool callback of timers | `IocpPort`, `IocpRead`, `IocpTimer`, composed in `Iocp`; `LoopWakeup` |
| What a watcher promises (`include/poll-dancer/poll-dancer.h`) | created, stopped or watching; the mask; the callback under way | create, start, stop, update, destroy, deliver | `WatcherContract`, implemented by `Epoll` and `Kqueue` |
| Registrations from several threads | `registrations[]`, not under the mutex | the same | not modelled, see section 6 |
| Errors, init, platform selection (`src/error.c`, `src/init.c`, `src/platform.c`) | a last-error slot | lookups | not modelled: nothing else depends on it |

How they interact. An application thread calls `pd_loop_run`, which alternates
between a test of `stop_requested`/`watcher_count` and one call of the
backend's `loop_run`. The backend waits without the mutex and runs callbacks
on the loop thread; a callback may call any API function, on any watcher or
timer, while the rest of the batch waits to be processed. Other threads reach
the loop through `pd_loop_stop`, `pd_loop_async_send`, `pd_loop_ref`,
`pd_loop_unref`, and by creating and destroying watchers. A timer is a timerfd
plus a watcher of it, so timers compete with the application for descriptor
numbers and registration records. The kernel's epoll set is keyed by
descriptor number, the records by watcher address; both are recycled.

What is hard: a stop or a send that races the wait; wake-ups that coalesce;
descriptor numbers and heap addresses that are reused before the teardown of
their earlier owner; one step of a registration failing after another
succeeded; callbacks that change what the batch still refers to; reference
counts shared between threads; on IOCP, reads that the kernel holds while the
watcher they point at is torn down by another thread. The list, line by line,
is under `hazards` in `PROJECT.json`.

## 2. Modules

### LoopWakeup

One loop thread and a set `Callers` of other threads. `lpc` is where the loop
thread is (`enter`: between the two stores at the head of `pd_loop_run`;
`check`: its while condition; `once`: the guarded read in `pd_loop_run_once`;
`wait`: in `epoll_wait`, `kevent` or `GetQueuedCompletionStatusEx`; `dispatch`
and `callback`: in the for loop over the batch). A step is one access to shared
state. The critical sections around `stop_requested` and `async_data` each
contain a single access and are therefore one step. `pd_loop_stop` and
`pd_loop_async_send` are two steps, the store and the wake-up, since the mutex
is released in between.

`backend` is `loop->ops`, chosen in `Init` and never changed. The backends
differ in what `signal` is and in who resets it: the eventfd counter saturates
at `SignalMax` (`write` reports `EAGAIN`, `epoll_async_send` success) and is
reset by the read in the dispatch; the `EVFILT_USER` event is cleared by the
wait that reports it (`EV_CLEAR`), so a wake-up sent during the dispatch is
kept apart; the port holds one packet per wake-up, and a wait may take some of
them. Watchers are identified with their descriptors here, and creating or
destroying one is a single step.

Two history variables serve the properties: `unnoticed` (data stored, no
wake-up dispatched since) and `stopDue` (a stop called during a run that goes on).

Left out: running the loop again from inside a callback, and failures of the
wake-up other than a full eventfd or port, which a valid loop does not meet.

### Registrations

The array of (descriptor, watcher) records that the epoll and the kqueue
backend each keep, with the eviction of foreign records at registration and
the search and swap-with-last removal at unregistration. Both backends contain
the same code; the map names the lines of `epoll.c`.

### Epoll

One thread calls the API, outside the loop or in callbacks, so an API call is
one step. `mem` is the kernel's epoll set, `regs` the records, both as values
that `Register`, `Unregister`, `Modify`, `InitWatcher`, `StopWatcher` and
`DestroyWatcher` transform exactly as the C functions do, so that the actions
`Create`, `Start`, `Stop`, `Update`, `Destroy` and the timers of `EpollTimers`
share them. `Faults` are the failures a registration can meet: `alloc` (the
watcher's platform data), `ctl` (`EPOLL_CTL_ADD`), `grow` (the records array)
and `list` (`loop->watchers`). `OpenFd` and `CloseFd` are the application's,
and closing takes the descriptor out of the epoll set.

The constants state what the application or `malloc` may do; the rules they
relax are exactly where the code stops being safe:

* `CloseEarly`: descriptors are closed before their watchers are stopped or
  destroyed (the deferred teardown that the records were introduced for);
* `ReuseAddr`: the address of a watcher torn down after such a close is handed
  out again (other addresses always may be). `FALSE` in the passing run, `TRUE`
  in `EpollAddrReuse`;
* `SameBatch`: a callback acts on a watcher with an unprocessed entry in the
  batch. `FALSE` in the passing runs. With `TRUE` the contract is violated, as
  `EpollSameBatch.cfg` shows: `epoll_loop_run` calls the watcher of every
  entry (epoll.c:268) without looking whether it is still active or allocated,
  although poll-dancer.h says of a stopped watcher that it "no longer receives
  events";
* `StaleUse`: a watcher whose descriptor the application has closed is started
  or updated. `FALSE` throughout. With `TRUE`, `ActiveIsMember` fails:
  `EPOLL_CTL_MOD` (epoll.c:384) is issued by number, without the ownership
  check, and overwrites the entry of whoever has the number now;
* `ShareFd`: a second watcher is created for a descriptor. `FALSE` throughout.
  With `TRUE`, `NoDanglingEntry` fails: the eviction in
  `epoll_watcher_register` (epoll.c:329) happens before the ADD fails with
  `EEXIST`, and the first watcher's teardown then skips its DEL.

Neither readiness nor edge-triggered rearming is modelled: the kernel may
report any condition asked for, and any error or hang-up, at any time.

### WatcherContract

What the header promises, with no backend in it: a watcher is `none`,
`stopped` or `watching`; a callback runs only for a watching one, one at a
time, with events of the mask it has at that moment or an error or hang-up.
`Epoll` and `Kqueue` each define `ImplementsContract` by an `INSTANCE` that
maps `status` to `alive`/`active`, `mask` to `wev` and `running` to `cb` (on
kqueue only when `cb` is a watcher's), and the runs check it as a property:
every step of the backend, failed registrations and recycled descriptors
included, is a step of the contract or leaves it alone. `Iocp` does not
implement it: a read's re-arm looks at the event that was dispatched and not
at the mask (iocp.c:489), and a socket's read is cancelled with `CancelIo`,
which misses reads of other threads (iocp.c:717), so a watcher that no longer
wants READ may still be called with it.

### EpollTimers

Extends `Epoll` with timers. `armed` and `expired` are the timerfds; durations
are left out, so an armed timerfd may expire at any later time, and a
repeating one stays armed. `asked` is a history variable: the timers that the
user is entitled to hear from. `AppStepT` is any application step of `Epoll`
that leaves the timers' descriptors and watchers alone, which the application
does not know. `RestartFired` (`FALSE`) lets the application call
`pd_timer_start` on a one-shot timer that has fired; with `TRUE`,
`StartedIsPending` fails, since `timer->active` is still set and
`pd_timer_start` returns at timer.c:58 without arming anything. With
`SameBatch = TRUE`, `FiresWhenDue` fails: a timer stopped by an earlier
callback of the batch is called all the same (epoll.c:489-494).

### Kqueue

The kqueue backend under the same watcher API. A watcher may also be created
for a descriptor that was closed: `kevent` then fails after the eviction, or,
when the mask asks for neither READ nor WRITE, is not called at all. `kq` is the kernel's queue, at
most a READ and a WRITE filter for each descriptor, each with the watcher it
reports to; `ktimer` holds the kernel's timers, which are keyed by the address
of the `pd_timer_t`. As in `Epoll` an API call is one step. What differs:

* a watcher's two filters report separately, so one batch can hold two entries
  of one watcher;
* `kevent` applies its changes in order and stops at the first failure
  (`DeleteFilters`, and the fault `second` in `Register`);
* the records are consulted before the filters are deleted, and the record goes
  whatever `kevent` says, so the stale record of the epoll backend (epoll.c:424)
  has no counterpart and freed addresses are always reused;
* a repeating timer whose first delay differs from its interval is a one-shot
  until its first event is dispatched (`initial` is `pending_initial`);
* `kqueue_watcher_update` is called after `pd_watcher_update` has overwritten
  `watcher->events`, and `Update` hands `Modify` the same mask twice.

The passing run keeps to what the code gets right: `ChangeMask` (an update
changes the READ, WRITE or EDGE bits) is `FALSE`, and `TRUE` in `KqueueUpdate`;
`SameBatch` is `FALSE`, as in `Epoll`, and `TRUE` in `KqueueSameBatch.cfg`,
where one watcher is enough: its callback for READ stops or destroys it, as
src/README.md:808-812 shows, and the WRITE entry of the batch is followed all
the same. `DispatchesLive` fails there, and nothing is said of it elsewhere. Two faults are left out of
the passing run. With
`second` (memory runs out between the two filters, kqueue.c:343)
`NoDanglingEntry` fails: the READ filter of the watcher that is then freed
stays. With `rearm` (the `kevent` at kqueue.c:245, whose result is ignored)
`StartedIsPending` fails: the timer stays active and is in no queue.

A one-shot timer is added without `EV_ONESHOT` (kqueue.c:645) and is modelled
as what it then is, a periodic timer. `kqueue_loop_run` uses
`pd_kqueue_timer_data_t` above its definition (kqueue.c:234, 549); the model
reads it as if it were declared first.

### IocpPort, IocpRead, IocpTimer, Iocp

Here several threads call the API while the loop thread dispatches, and the
flags they share are not under a lock, so a call is several steps: `call[th]`
says where thread `th` is in one, and `lpc`/`cur` where the loop thread is in
the handling of a packet (`examined`: past the tests of `stopping`; `callback`;
`rearm`: the callback has returned; `issue`: `pending_operation` is published,
the read not yet issued).

* `IocpPort` is the port, a FIFO of packets taken in batches of `MaxEvents`,
  and `iocp_drain_sync`: a packet that names the waiting thread's stack frame.
* `IocpRead` has the watchers. `alive` is the `pd_watcher_t`, `datum` the
  `watcher_data` with the `OVERLAPPED`, `ptr` whether `platform_data` points
  at it. `reads` counts the reads that the kernel holds. A read ends with
  data, the end of the stream, an error, or cancelled. `pd_watcher_destroy`
  passes through `iocp_watcher_unregister` twice, as stop and as cleanup.
  The application's own overlapped writes share the port. `Start` always
  fails, since a handle stays associated with its port.
* `IocpTimer` has the timers: the pool callback that tests `destroyed` and
  posts, `DeleteTimerQueueTimer` in its two forms, the barrier, and the leak
  when it times out.
* `Iocp` composes them over the one port and states the properties.

Threads may call at any point of the handling of a packet, and so may the
callback, and the code does not survive every such call. A call that finds
`pending_operation` clear between the dispatch of a read and its re-arm, or
cancels before the re-arm has issued its read, goes on without the barrier:
another thread's, or the callback's own `pd_watcher_destroy` (iocp.c:837 finds
nothing to wait for, watcher.c:226 frees, and iocp.c:485 then looks at the freed
watcher); and a `pd_watcher_update` for READ issues a read to which the re-arm
adds a second. Such steps are in the passing run. They set the history variable
`raced`, after which no new call on that watcher is followed, since what the
loop thread then reads is left open by C. The run states for all other watchers
that memory is live, reads are alone and callbacks are wanted
(`FreedOnlyByRace`, `OneReadPerOverlapped`, `CallsActive`), and for these too
whatever the race leaves standing (`PendingAccounted`, `ReadStaysArmed`,
`CallsReturn`). `IocpRace` shows the freed memory reached by way of another
thread, `IocpOwnCallback.cfg` from a callback, and `IocpReupdate.cfg` the second
read.

`Liberties` lists what an application or the system might do and the code does
not survive. The passing run has the first two; of the others it has none, and
TLC shows what each breaks when added to it:

| Liberty | Rule it lifts | Fails |
|---|---|---|
| `ownCallback` | a callback does not destroy its own watcher | `NoUseAfterFree` (`IocpOwnCallback.cfg`) |
| `reupdate` | no `pd_watcher_update` for READ inside a READ callback | `NoSecondRead` (`IocpReupdate.cfg`) |
| `undrained` | a READ callback drains the buffer | `UndrainedIsStable` (`IocpUndrained.cfg`) |
| `selfDestroy` | the loop thread does not destroy timers | `SyncFrameLive` (run `IocpSelfDrain`) |
| `destroy` | a watcher with a read in flight is destroyed by a worker, after the loop has run, and was not stopped before | `FreedOnlyByRace` |
| `list` | `loop->watchers` can grow after the first read was issued (watcher.c:118) | `FreedOnlyByRace` |
| `register` | watchers are created on the loop thread | `CallsActive`, `PendingAccounted` |
| `timeout` | the loop thread answers a barrier within 5 s | `SyncFrameLive`, `FreedOnlyByRace` |
| `lateCancel` | a cancelled read has posted its packet when `CancelIoEx` returns | `DrainIsBarrier`, `FreedOnlyByRace` |
| `writes` | client writes are over before a watcher is stopped | `DrainIsBarrier`, `FreedOnlyByRace` |
| `toggle` | READ is not switched on again before the cancelled packet was dispatched | `ReadStaysArmed` |
| `reissue` | the read that an update issues does not fail | `PendingAccounted` |

The documentation shows or allows the first three (src/README.md:808-812,
iocp.c:458-461). With none of them the loop thread alone keeps `NoUseAfterFree`,
`NoSecondRead` and `UndrainedIsStable`, with each of them it does not, so the
three are the reason. The third is left out of the passing run for its size
only, and the theorems allow it. `TimerFaults` says which calls of
`DeleteTimerQueueTimer` may fail. `stop` is in every run; with `destroy`, the
call at iocp.c:1173 whose result is ignored, `FreedOnlyByRace` and
`DrainIsBarrier` fail.

When a packet is dispatched between a teardown's test of `pending_operation`
and its `stopping = 1`, no packet is left that would free `watcher_data`. The
model has this; that the memory leaks is not stated as a property.

Calls on one object are serialised (src/README.md:734). Left out: failures of
a creation before its first read is issued, which undo themselves; a
`CreateEvent` that fails in `iocp_drain_sync`, which acts like a timeout
without a packet; the 5 s limit of the wait for a pool callback that does
nothing but post; the placeholder watcher of a timer.

### LoopRefs

The life of one loop. `config` is how it is created: `pd_loop_create(NULL)`,
`pd_loop_create` with `enable_thread_safety` negative, 0 or 1, or
`pd_loop_default`; `EnableThreadSafety` follows `init_config_defaults`. With
the mutex, `pd_loop_ref` and `pd_loop_unref` are one step up to the unlock;
without it they are a load and a store, and whether `ref_count == 0` compares
the value at hand or a second read is left open, as it is in C. A reference is
a token that one thread holds, and `holder` says which. The teardown is the
loop of `pd_loop_unref`, one step per index, followed by the free. Allocation
failures of the list are in `Epoll`.

The passing run keeps two rules that the documentation does not. In
`LoopRefsDefault.cfg`, `pd_loop_default` is called again by a second user and both
release the loop, as src/README.md:450-458 shows: only the first call takes an
extra reference (loop.c:118), and the loop that "persists for the lifetime of
the process" is freed. In `LoopRefsShared.cfg`, two threads share a loop created
with `pd_loop_create(NULL)`: `enable_thread_safety` is then 0 (loop.c:54), and
`NoUseAfterFree` fails, although src/README.md:712 shows that call as the
thread-safe one.

### Which module composes which

`Epoll` and `Kqueue` extend `Registrations` and instantiate
`WatcherContract`. `EpollTimers` composes `Epoll` with the timers. `IocpRead`
and `IocpTimer` extend `IocpPort`, and `Iocp` composes the two.
The `*MC` modules instantiate one specification each.

The theorems are in modules of their own. `LoopWakeupProofs` and
`LoopRefsProofs` extend `LoopWakeup` and `LoopRefs`. `RegistrationsProofs` has
the lemmas about the records, which `EpollProofs` and `KqueueProofs` combine
with `Epoll` and `Kqueue`; `EpollTimersProofs` extends `EpollTimers` and
`EpollProofs`. `IocpPortProofs` extends `Iocp`, and `IocpProofs` extends it.

## 3. Runs

| Run | Bounds | Shows |
|---|---|---|
| `LoopWakeup` | three backends, 2 other threads, 2 descriptors, `SignalMax` 2, batches of 2; 191 thousand states | `NoMissedStop`, `NoLostNotify`; under fairness `StopEndsRun`, `AsyncNoticed`, `RunEndsWhenEmpty` |
| `Epoll` | 3 addresses (1 without callback), 2 descriptors, 2 masks, failures, early closes; 267 thousand states | `ActiveIsMember`, `NoDanglingEntry`, `MemberHasRecord`, `ImplementsContract` |
| `EpollTimers` | a one-shot and a repeating timer, 3 addresses, 2 descriptors, failures, early closes | `StartedIsPending`, `FiresWhenDue`, again `ActiveIsMember`; under fairness `OneShotFires` |
| `Kqueue` | 2 watchers (1 without callback), a two-phase timer, 2 descriptors, 3 masks, failures, early closes; 345 thousand states | `ActiveIsMember`, `NoDanglingEntry`, `ImplementsContract`, `StartedIsPending`; under fairness `InitialPhaseEnds` |
| `LoopRefs` | 3 threads, 3 references, 2 watchers, every way to create the loop | `CountMatches`, `NoUseAfterFree`, `TeardownAlone`, `WatchersDestroyed`; under fairness `DroppedIsFreed` |
| `Iocp` | the loop thread and a worker, a socket watcher, a periodic timer, batches of 2, the kernel posts into an empty port; 103 thousand states | `FreedOnlyByRace`, `SyncFrameLive`, `DrainIsBarrier`, `OneReadPerOverlapped`, `PendingAccounted`, `ReadStaysArmed`, `CallsActive`; under fairness `CallsReturn` |
| `LoopWakeupStopLost` | 1 other thread | violated: `StopOfRunningLoop` |
| `EpollAddrReuse` | as `Epoll`, addresses reused, no failures | violated: `ActiveIsMember` |
| `KqueueUpdate` | as `Kqueue`, updates change the mask, no failures | violated: `ActiveIsMember` |
| `LoopRefsTeardown` | 1 thread, 2 watchers left | violated: `WatchersDestroyed` |
| `IocpRace` | as `Iocp` | violated: `NoUseAfterFree` |
| `IocpSelfDrain` | as `Iocp`, with the liberty `selfDestroy` | violated: `SyncFrameLive` |

The violated properties are what the documentation or a comment says of the
program; each finding in `PROJECT.json` quotes the line and says what the
counterexample does.

Seven more configurations are kept beside the runs. Each relaxes one rule that a
passing run keeps (or, for `ownCallback` and `reupdate`, isolates what the
passing run exempts), and TLC finds the property violated within seconds:

| Configuration | Module | Violated | Against |
|---|---|---|---|
| `LoopRefsDefault.cfg` | `LoopRefsMC` | `DefaultPersists` | src/README.md:458 "persists for the lifetime of the process" |
| `LoopRefsShared.cfg` | `LoopRefsMC` | `NoUseAfterFree` | src/README.md:712-720, `pd_loop_create(NULL)` as the thread-safe loop |
| `EpollSameBatch.cfg` | `EpollMC` | `ImplementsContract` | poll-dancer.h on `pd_watcher_stop`: "no longer receives events" |
| `KqueueSameBatch.cfg` | `KqueueMC` | `DispatchesLive` | src/README.md:808-812, a watcher destroyed in its own callback |
| `IocpOwnCallback.cfg` | `IocpMC` | `NoUseAfterFree` | the same |
| `IocpReupdate.cfg` | `IocpMC` | `NoSecondRead` | iocp.c:458-461, where the callback may register a read |
| `IocpUndrained.cfg` | `IocpMC` | `UndrainedIsStable` | iocp.c:458-461, where the callback may leave bytes in the buffer |

Why the bounds are enough. Two callers are needed for a send to meet a stop
and for the counter to reach its limit with a write pending; `SignalMax` 2
separates "readable" from "full". Two descriptor numbers allow one to be
recycled while the other is in use, and three addresses allow a stale watcher,
the new owner of its number and a bystander (`Kqueue` does with two, since it
keeps no stale records). Masks and conditions are chosen so
that a reported condition can be unwanted (`RDHUP` for a reader) and so that
one mask maps to several epoll bits. Three threads are needed for a reference
to be passed on while two others drop theirs. In `Iocp` one watcher and one
timer share the port, so each is torn down while the other's packets are ahead
of or behind the barrier's, and `MaxEvents` 2 lets a packet wait in the batch
while another is handled. `QueueMax` bounds only what the kernel posts: threads
post their barriers and cancellations beyond it. With `QueueMax` 2 and
a handle watcher in place of the socket (279 thousand states), and with two
workers (383 thousand), the same safety properties hold. Every history variable is a flag
or a subset of a finite set, so no run needs a state constraint.

In `LoopWakeup`, watchers are removed by callbacks only. With `"remove"` in
`CallerOps`, `RunEndsWhenEmpty` fails: `pd_loop_remove_watcher` wakes nobody,
so a loop that waits while another thread destroys its last watcher goes on
waiting (loop.c:202, loop.c:364). The invariants do not depend on it: they are
proved for every `CallerOps`.

`LoopRefs` switches deadlock checking off because its behaviours end: the loop
is freed and nobody can use it.

Every property has a mutant of the code that breaks it, listed in
`PROJECT.json` and defined next to the operation it changes.

## 4. Fairness

* `LoopWakeup`: the loop thread keeps running and a wait with something to
  report returns (weak fairness); a thread inside `pd_loop_stop` or
  `pd_loop_async_send` finishes it (weak); a callback makes finitely many calls
  and returns (strong, because its own calls disable the return for a moment);
  `epoll_wait` serves its ready list round robin, so the eventfd is not left
  out for ever when other descriptors stay ready, and not every wait is
  interrupted (strong). Nobody is obliged to begin a call.
* `EpollTimers`: time passes, the application keeps running the loop,
  callbacks return, and `epoll_wait` does not pass over a readable timerfd for
  ever.
* `Kqueue`: the same, with `kevent` and the kernel's timers.
* `LoopRefs`: a thread inside `pd_loop_ref` or `pd_loop_unref` finishes.

* `Iocp`: the loop thread goes on dispatching, the system's pool runs its
  callbacks, and a thread inside a call goes on (strong for the calls, which
  wait for the pool and for the loop thread and are enabled now and then); the
  application comes back to the loop, drains the buffer and leaves its
  callbacks (strong, because its own calls disable these for a moment).
  Nobody is obliged to begin a call, and no read or timer is obliged to
  complete.

## 5. Proofs

The invariants and action properties that the passing runs check, and both
refinements, are also theorems, all but one (`WatchersDestroyed`, see below):
for any threads, descriptors, watchers, timers,
references and masks, and for queues, arrays and batches of any length. What
the passing runs exclude by a constant (section 2) the theorems exclude by an
explicit hypothesis on that constant; section 2 names, for each, a property
that TLC finds violated without it. Everything else the constants allow, faults
and early closes included, is left free.

Each proof has an inductive invariant, a step for each action, and lemmas for
what the C functions do that several actions share. The invariants were checked
by TLC on the runs' instances before they were proved.

| Theorem | States | Hypotheses |
|---|---|---|
| `LoopWakeupProofs` `TypeCorrect`, `StopNotMissed`, `NotifyNotLost` | `TypeOK`, `NoMissedStop`, `NoLostNotify` | none |
| `LoopRefsProofs` `TypeCorrect`, `CountCorrect`, `FreedIsUnused`, `OneTeardown` | `TypeOK`, `CountMatches`, `NoUseAfterFree`, `TeardownAlone` | `SafeUse`: `~ShareUnprotected`, `~GetAgain` |
| `EpollProofs` `TypeCorrect`, `ActiveIsWatched`, `NothingDangles`, `MembersRecorded` | `EpollTypeOK`, `ActiveIsMember`, `NoDanglingEntry`, `MemberHasRecord` | `~ReuseAddr`, `~ShareFd`, `~StaleUse` |
| `EpollProofs` `Refinement` | `ImplementsContract` | and `~SameBatch` |
| `EpollTimersProofs` `TimersTypeCorrect`, `WatchedBesideTimers`, `TimerIsPending` | `TimersTypeOK`, `ActiveIsMember`, `StartedIsPending` | as `EpollProofs`, and `~RestartFired` |
| `EpollTimersProofs` `TimerFiresWhenDue` | `FiresWhenDue` | and `~SameBatch` |
| `KqueueProofs` `ActiveIsWatched`, `NothingDangles` | `ActiveIsMember`, `NoDanglingEntry` | `~ChangeMask`, no fault `second` |
| `KqueueProofs` `TypeCorrect` | `KqueueTypeOK` | and no fault `rearm` |
| `KqueueProofs` `TimerIsPending`, `Refinement` | `StartedIsPending`, `ImplementsContract` | and `~SameBatch` |
| `IocpPortProofs` `FrameIsLive` | `SyncFrameLive` | no liberty `timeout` or `selfDestroy` |
| `IocpPortProofs` `TimersAreSafe` | `TimerMemorySafe` | and no timer fault `destroy` |
| `IocpProofs` `TypeCorrect`, `MemoryIsLive`, `BarrierHolds`, `OverlappedIsOwned`, `OnlyActiveCalled` | `IocpTypeOK`, `FreedOnlyByRace`, `DrainIsBarrier`, `OneReadPerOverlapped`, `CallsActive` | `Careful`: no liberty but `ownCallback`, `reupdate`, `undrained`, `toggle` and `reissue`, no timer fault `destroy` |
| `IocpProofs` `PendingIsTrue` | `PendingAccounted` | and not `reissue` |
| `IocpProofs` `NeverDeadArmed` | `ReadStaysArmed` | and neither `toggle` nor `reissue` |

The named `ASSUME`s of the modules say of the constants
only that markers are distinct from what they mark, that sets hold values of
their kind, and that limits are positive.

### LoopWakeupProofs

The statements hold on each of the three backends, for any `CallerOps` and
`LoopOps`.

* `TypeCorrect`: the interesting part is `signal`, which stays within its limit
  because a full eventfd or port refuses more (lemmas `SignalSent` and
  `SignalLeft`).
* `StopNotMissed` is inductive relative to `TypeOK`: the loop thread reaches
  the wait only from `RunOnceCheck`, which has just seen the flag clear; from
  there the flag is set only by a thread that still has its wake-up to send,
  the wake-up makes `signal` positive, and only the loop thread takes it, with
  the step by which it leaves the wait or later.
* `NotifyNotLost` is inductive relative to `TypeOK`: a send turns a pending
  wake-up into a positive `signal`, also at the limit; a wait that takes it, as
  on kqueue and IOCP, leaves the entry in the batch, and the batch is processed
  before the loop thread can do anything else (lemma `BatchProcessed`); the
  dispatch of the entry is the notice.

### LoopRefsProofs

`CountMatches` alone is not inductive: between the load and the store of an
unprotected `pd_loop_unref` it says nothing. `IInv` adds

* `Usage`: only a live loop is used; with the mutex every call but the teardown
  is one step, and without it one thread does everything;
* `Counting`: `ref_count` is the number of references held (plus the default's),
  and one more between the moment a reference is given up and the store;
* `Teardown`: one thread at most, and never for the default loop;
* `Listing`: `loop->watchers` lists every live watcher once.

`FreedIsUnused` follows from `Usage`, since a loop is torn down only when
`Counting` says that nobody holds it. Nothing is proved of the watchers left
over at the teardown: it skips every second one, which is the run
`LoopRefsTeardown`. Nothing is proved either of a default loop that several
users release, which `LoopRefsDefault.cfg` shows freed.

### RegistrationsProofs

For any array of records: a search that can succeed finds the first match
(`LeastElement` gives the least index), and removal by moving the last record
into the gap removes exactly one. When descriptors and watchers are both keys
of the array (`Keyed`), the array stands for the set of its records (`Recs`),
and eviction, appending and removal are the set operations one expects.

### EpollProofs, EpollTimersProofs

`NoDanglingEntry` is not inductive, because what keeps the epoll set clean at a
teardown is the record that the teardown finds. `EInv` relates the three:

* `Recorded`: the records are keyed; the record of a live watcher is of an
  active one and names its descriptor, and a record of a dead watcher was left
  by a stale teardown, so that its address is not in use;
* `Membership`: an entry of the epoll set belongs to an active watcher of that
  very descriptor and has its record;
* `OneWatcher`: watchers that are not stale have open descriptors of their own;
* and `ActiveIsMember`.

With these, `_epoll_evict_stale_registration` only drops records of stale
watchers, a teardown finds its own record exactly when the entry is its own,
and so no entry survives its watcher. The refinement needs `Dispatching` too:
the entries of the batch that are not processed yet belong to active watchers
and report what those asked for. Each action then maps to a step of
`WatcherContract` or to a stutter.

The timers add `Timed` (a live timer has a watcher of its own, started exactly
when the timer is) and `Pending`. `EInv` carries over, since `pd_timer_start`
and `pd_timer_stop` are `pd_watcher_start` and `pd_watcher_stop` of that
watcher. `FiresWhenDue` needs `Due`, about what waits in the batch.

### KqueueProofs

`WInv` is the same argument with two filters for each descriptor. It is
stronger in one place: every record is that of an active watcher, since
unregistering cannot leave one behind, and so addresses may be reused freely
and no rule about the batch is needed. `LInv` has the timers and the batch:
an entry that waits there belongs to a live object, and a started timer is in
the kernel's queue, or its one-shot entry is in the batch.

### IocpPortProofs, IocpProofs

The invariants speak of `Flow`, the packets in the order in which the loop
thread will handle them (`batch` followed by `queue`): every step appends to
it, takes its head, or moves the border between the two.

`PInv` has the port, the calls and the timers. Its heart is `Barrier(Timers)`:
while a thread waits in `iocp_drain_sync`, no packet of the object it tears
down is behind its own packet in `Flow`. So when its packet is dispatched none is
left, and the timer may be freed. Only two liberties matter here, `timeout` and
`selfDestroy`, and for the timers' memory the result that iocp.c:1173 ignores;
`FrameIsLive` and `TimersAreSafe` hold whatever else the application and the
kernel do.

`RInv` is about one watcher at a time (`Fine`). For one that no call has raced,
`WatcherOK` says where its read is (`SingleRead`, `Backed`), what
`pending_operation` says about it (`Accounted`), how the flags go with the stage
of the call on it (`Allocated`, `Registered`), what may still come when it is
about to be freed (`WritesOver`, `Freeing`), and that a wanted read is in flight
or being handled (`Wanted`); and it has the barrier (`Barrier({w})`). `Freeing`
is the heart: a thread that is about to free either finds no read that could
reach the watcher, or is still to wait in `iocp_drain_sync` for the loop thread
to be past it, or it overtakes the handling of a read and the step makes the
watcher a raced one. Of a raced watcher `RacedOK` says what is left: no new
call, and an active one goes on reading. Most actions concern one watcher and
leave the others alone (lemma `UntouchedOK`); one lemma for each action does
the rest.

The proof corrected the model in one place: `TimerCallDone` freed a timer
without clearing its `active` flag, which is set when `DeleteTimerQueueTimer`
has failed, so that a timer created at the same address began as active and
could not be started.

### Model-checked only

The liveness properties `StopEndsRun`, `AsyncNoticed`, `RunEndsWhenEmpty`,
`OneShotFires`, `InitialPhaseEnds`, `DroppedIsFreed` and `CallsReturn` rest on
fairness, which is outside the prover's reach. `WatchersDestroyed` is checked
for one watcher left over and is false for more. The violated properties have
counterexamples and no theorems.

## 6. Plan, and what is not modelled

What is left is proof: weaker hypotheses for single theorems. `OverlappedIsOwned`
and `OnlyActiveCalled`, for example, should not depend on the liberties that
only endanger freed memory, such as `destroy` and `list`; and on kqueue the
fault `rearm` should not matter to the refinement.

Not modelled:

* registering from several threads at once. `registrations[]` is grown,
  searched and compacted without the loop's mutex (epoll.c:357, kqueue.c:360),
  a data race whose outcome C leaves open; the only rule under which anything
  can be said is that the calls are serialised, and that is what `Epoll` and
  `Kqueue` model;
* how often a one-shot timer fires on kqueue: it is added without `EV_ONESHOT`
  (kqueue.c:645) and fires until it is stopped;
* durations: a timer may expire at any time after it was started;
* `pd_watcher_create_for_handle` and `pd_watcher_drain_read` on POSIX, where
  they do nothing; error strings and the last-error slot; the getters;
  compile-time platform selection beyond the choice of `backend`.
