------------------------------ MODULE LoopWakeup ------------------------------
(***************************************************************************)
(* The control half of an event loop (src/loop.c) over the wake-up channel *)
(* of each backend: the eventfd of src/platform/epoll.c, the EVFILT_USER   *)
(* event of src/platform/kqueue.c, the empty packets of                    *)
(* src/platform/iocp.c.  pd_loop_run, pd_loop_run_once, pd_loop_stop and   *)
(* pd_loop_async_send, with one loop thread and any number of other        *)
(* threads.                                                                *)
(*                                                                         *)
(* A step is one access to shared state.  The critical sections of         *)
(* pd_loop_stop, pd_loop_async_send and pd_loop_run_once each hold the     *)
(* mutex around a single assignment or read, so each is one step; the      *)
(* mutex is never held across the wait or across the wake-up.  Watchers    *)
(* are identified with the descriptors they watch, and creating or         *)
(* destroying one is one step: registration is the subject of modules      *)
(* Epoll, Kqueue and Iocp.                                                 *)
(***************************************************************************)
EXTENDS Naturals, FiniteSets

CONSTANTS
  Callers,     \* threads that use the loop while another thread runs it
  LoopThread,  \* the thread that calls pd_loop_run and pd_loop_run_once
  Sources,     \* descriptors a watcher can be created for
  Async,       \* the entry by which a wait reports a wake-up
  Data,        \* pointers handed to pd_loop_async_send
  NoData,      \* the NULL that async_data starts with
  SignalMax,   \* largest value of the eventfd counter, a write beyond it is EAGAIN;
               \* the most empty packets the port can hold
  MaxEvents,   \* max_events_per_wait
  CallerOps,   \* what the other threads call while the loop may be running
  LoopOps      \* what the loop thread calls between runs and inside callbacks

Ops == {"stop", "send", "add", "remove"}

ASSUME ConstantsAssumption ==
  /\ LoopThread \notin Callers
  /\ Async \notin Sources
  /\ NoData \notin Data
  /\ SignalMax \in Nat \ {0}
  /\ MaxEvents \in Nat \ {0}
  /\ CallerOps \subseteq Ops
  /\ LoopOps \subseteq Ops

Threads == Callers \cup {LoopThread}

VARIABLES
  backend,        \* loop->ops, which never changes
  running,        \* loop->running
  stopRequested,  \* loop->stop_requested
  watchers,       \* loop->watchers; loop->watcher_count is its size
  asyncData,      \* loop->async_data
  signal,         \* the wake-ups to report: the counter of the eventfd, whether
                  \* the EVFILT_USER event is triggered, the empty packets
  ready,          \* descriptors with a pending (level-triggered) event
  lpc,            \* where the loop thread is
  call,           \* which entry point the loop thread is in
  batch,          \* entries of data->events not yet processed
  cpc,            \* the API call each thread is in the middle of
  unnoticed,      \* history: async_data stored, no wake-up dispatched since
  stopDue         \* history: pd_loop_stop called during a run that goes on

vars == <<backend, running, stopRequested, watchers, asyncData, signal, ready,
          lpc, call, batch, cpc, unnoticed, stopDue>>

Backends == {"epoll", "kqueue", "iocp"}
LoopPcs  == {"out", "enter", "check", "once", "wait", "dispatch", "callback"}
Calls    == {"none", "run", "poll", "block"}
CallPcs  == {"none", "stopWake", "sendWake"}

(***************************************************************************)
(* Type invariant: the flags, counters and program counters stay in range. *)
(* The eventfd counter saturates (write returns EAGAIN) and never wraps.   *)
(***************************************************************************)
TypeOK ==
  /\ running \in BOOLEAN
  /\ stopRequested \in BOOLEAN
  /\ watchers \subseteq Sources
  /\ asyncData \in Data \cup {NoData}
  /\ backend \in Backends
  /\ signal \in 0..SignalMax
  /\ ready \subseteq Sources
  /\ lpc \in LoopPcs
  /\ call \in Calls
  /\ batch \subseteq Sources \cup {Async}
  /\ cpc \in [Threads -> CallPcs]
  /\ unnoticed \in BOOLEAN
  /\ stopDue \in BOOLEAN

Init ==
  /\ backend \in Backends
  /\ running = FALSE
  /\ stopRequested = FALSE
  /\ watchers = {}
  /\ asyncData = NoData
  /\ signal = 0
  /\ ready = {}
  /\ lpc = "out"
  /\ call = "none"
  /\ batch = {}
  /\ cpc = [t \in Threads |-> "none"]
  /\ unnoticed = FALSE
  /\ stopDue = FALSE

-----------------------------------------------------------------------------
(* pd_loop_run and pd_loop_run_once, on the loop thread. *)

\* pd_loop_run_once returns a count: to pd_loop_run's loop or to the user.
OnceReturns ==
  /\ lpc' = IF call = "run" THEN "check" ELSE "out"
  /\ call' = IF call = "run" THEN "run" ELSE "none"

\* pd_loop_run: loop->running = 1
LoopRunEnter ==
  /\ lpc = "out"
  /\ cpc[LoopThread] = "none"
  /\ lpc' = "enter"
  /\ call' = "run"
  /\ running' = TRUE
  /\ UNCHANGED <<stopRequested, watchers, asyncData, signal, ready,
                 batch, cpc, unnoticed, stopDue>>

\* pd_loop_run: loop->stop_requested = 0, a store outside the mutex
LoopRunReset ==
  /\ lpc = "enter"
  /\ lpc' = "check"
  /\ stopRequested' = FALSE
  /\ UNCHANGED <<running, watchers, asyncData, signal, ready, call,
                 batch, cpc, unnoticed, stopDue>>

\* Mutant: the while condition tests stop_requested alone
LoopRunCheckNoCount ==
  /\ lpc = "check"
  /\ \/ /\ ~stopRequested
        /\ lpc' = "once"
        /\ UNCHANGED <<running, call, stopDue>>
     \/ /\ stopRequested
        /\ lpc' = "out"
        /\ call' = "none"
        /\ running' = FALSE
        /\ stopDue' = FALSE
  /\ UNCHANGED <<stopRequested, watchers, asyncData, signal, ready,
                 batch, cpc, unnoticed>>

\* pd_loop_run: the while condition, and the normal return
LoopRunCheck ==
  /\ lpc = "check"
  /\ \/ /\ ~stopRequested /\ watchers # {}
        /\ lpc' = "once"
        /\ UNCHANGED <<running, call, stopDue>>
     \/ /\ stopRequested \/ watchers = {}
        /\ lpc' = "out"
        /\ call' = "none"
        /\ running' = FALSE
        /\ stopDue' = FALSE
  /\ UNCHANGED <<stopRequested, watchers, asyncData, signal, ready,
                 batch, cpc, unnoticed>>

\* pd_loop_run_once called by the user: "poll" with a finite timeout,
\* "block" with timeout_ms < 0
LoopRunOnce(c) ==
  /\ lpc = "out"
  /\ cpc[LoopThread] = "none"
  /\ lpc' = "once"
  /\ call' = c
  /\ UNCHANGED <<running, stopRequested, watchers, asyncData, signal,
                 ready, batch, cpc, unnoticed, stopDue>>

\* Mutant: run_once goes to the wait without reading stop_requested
RunOnceCheckSkipped ==
  /\ lpc = "once"
  /\ lpc' = "wait"
  /\ UNCHANGED <<running, stopRequested, watchers, asyncData, signal,
                 ready, call, batch, cpc, unnoticed, stopDue>>

\* pd_loop_run_once: read stop_requested under the mutex, then either return
\* 0 or go on to loop->ops->loop_run without the mutex
RunOnceCheck ==
  /\ lpc = "once"
  /\ IF stopRequested
       THEN OnceReturns
       ELSE /\ lpc' = "wait"
            /\ UNCHANGED call
  /\ UNCHANGED <<running, stopRequested, watchers, asyncData, signal,
                 ready, batch, cpc, unnoticed, stopDue>>

-----------------------------------------------------------------------------
(* loop->ops->loop_run, on the loop thread: epoll_loop_run,                *)
(* kqueue_loop_run, iocp_loop_run.                                         *)

\* What the wait can report: a wake-up, and every watched descriptor with a
\* level-triggered event.
Reportable == (ready \cap watchers) \cup (IF signal > 0 THEN {Async} ELSE {})

\* What may be left of the wake-ups when the wait has reported one.
\* epoll_wait leaves the counter to the read of the dispatch, kevent clears
\* the event as EV_CLEAR demands, GetQueuedCompletionStatusEx takes packets.
EpollWaitLeaves(n) == {n}
KeventLeaves(n) == {0}
PortLeaves(n) == {m \in 0..SignalMax : m < n}

Leaves(n) ==
  CASE backend = "epoll"  -> EpollWaitLeaves(n)
    [] backend = "kqueue" -> KeventLeaves(n)
    [] OTHER              -> PortLeaves(n)

\* The wait returns entries
Wait(S) ==
  /\ lpc = "wait"
  /\ S \subseteq Reportable
  /\ S # {}
  /\ Cardinality(S) <= MaxEvents
  /\ batch' = S
  /\ signal' \in (IF Async \in S THEN Leaves(signal) ELSE {signal})
  /\ lpc' = "dispatch"
  /\ UNCHANGED <<running, stopRequested, watchers, asyncData, ready, call, cpc,
                 unnoticed, stopDue>>

\* The wait times out, or a signal interrupts epoll_wait or kevent: loop_run
\* returns 0.  A wait on the port without a timeout does not return empty.
WaitNothing ==
  /\ lpc = "wait"
  /\ backend = "iocp" => call = "poll"
  /\ OnceReturns
  /\ UNCHANGED <<running, stopRequested, watchers, asyncData, signal,
                 ready, batch, cpc, unnoticed, stopDue>>

\* The wait fails otherwise: PD_ERR_SYSTEM, which also ends pd_loop_run
WaitError ==
  /\ lpc = "wait"
  /\ lpc' = "out"
  /\ call' = "none"
  /\ running' = IF call = "run" THEN FALSE ELSE running
  /\ stopDue' = IF call = "run" THEN FALSE ELSE stopDue
  /\ UNCHANGED <<stopRequested, watchers, asyncData, signal, ready,
                 batch, cpc, unnoticed>>

\* The entry of a wake-up: no callback runs, and on epoll one read resets the
\* eventfd.  The read cannot fail: the loop thread is the only reader of a
\* counter that was positive when epoll_wait reported it.
DispatchAsync ==
  /\ lpc = "dispatch"
  /\ Async \in batch
  /\ batch' = batch \ {Async}
  /\ signal' = IF backend = "epoll" THEN 0 ELSE signal
  /\ unnoticed' = FALSE
  /\ UNCHANGED <<running, stopRequested, watchers, asyncData, ready,
                 lpc, call, cpc, stopDue>>

\* The entry of a watched descriptor: the callback starts, and may or may not
\* consume what made the descriptor ready
DispatchSource(s) ==
  /\ lpc = "dispatch"
  /\ s \in batch \ {Async}
  /\ batch' = batch \ {s}
  /\ lpc' = "callback"
  /\ ready' \in {ready, ready \ {s}}
  /\ UNCHANGED <<running, stopRequested, watchers, asyncData, signal,
                 call, cpc, unnoticed, stopDue>>

CallbackReturn ==
  /\ lpc = "callback"
  /\ cpc[LoopThread] = "none"
  /\ lpc' = "dispatch"
  /\ UNCHANGED <<running, stopRequested, watchers, asyncData, signal,
                 ready, call, batch, cpc, unnoticed, stopDue>>

\* The for loop over the batch ends: loop_run returns nfds
DispatchDone ==
  /\ lpc = "dispatch"
  /\ batch = {}
  /\ OnceReturns
  /\ UNCHANGED <<running, stopRequested, watchers, asyncData, signal,
                 ready, batch, cpc, unnoticed, stopDue>>

-----------------------------------------------------------------------------
(* The calls other threads and callbacks make. *)

\* Thread t may begin the API call op.
MayCall(t, op) ==
  /\ cpc[t] = "none"
  /\ \/ t \in Callers /\ op \in CallerOps
     \/ t = LoopThread /\ lpc \in {"out", "callback"} /\ op \in LoopOps

\* Mutant: pd_loop_stop does not wake the loop
StopSetNoWake(t) ==
  /\ MayCall(t, "stop")
  /\ stopRequested' = TRUE
  /\ UNCHANGED <<running, watchers, asyncData, signal, ready, lpc, call,
                 batch, cpc, unnoticed, stopDue>>

\* pd_loop_stop, first half: stop_requested = 1 under the mutex
StopSet(t) ==
  /\ MayCall(t, "stop")
  /\ stopRequested' = TRUE
  /\ stopDue' = (stopDue \/ running)
  /\ cpc' = [cpc EXCEPT ![t] = "stopWake"]
  /\ UNCHANGED <<running, watchers, asyncData, signal, ready, lpc, call,
                 batch, unnoticed>>

\* Mutant: pd_loop_async_send stores the data and does not wake the loop
SendSetNoWake(t, d) ==
  /\ MayCall(t, "send")
  /\ asyncData' = d
  /\ unnoticed' = TRUE
  /\ UNCHANGED <<running, stopRequested, watchers, signal, ready, lpc,
                 call, batch, cpc, stopDue>>

\* pd_loop_async_send, first half: async_data = data under the mutex
SendSet(t, d) ==
  /\ MayCall(t, "send")
  /\ asyncData' = d
  /\ unnoticed' = TRUE
  /\ cpc' = [cpc EXCEPT ![t] = "sendWake"]
  /\ UNCHANGED <<running, stopRequested, watchers, signal, ready, lpc,
                 call, batch, stopDue>>

\* Mutant: the counter wraps to zero at its limit
AsyncSendWraps(t) ==
  /\ cpc[t] \in {"stopWake", "sendWake"}
  /\ signal' = (signal + 1) % (SignalMax + 1)
  /\ cpc' = [cpc EXCEPT ![t] = "none"]
  /\ UNCHANGED <<running, stopRequested, watchers, asyncData, ready, lpc,
                 call, batch, unnoticed, stopDue>>

\* Mutant: the counter has no limit
AsyncSendUnbounded(t) ==
  /\ cpc[t] \in {"stopWake", "sendWake"}
  /\ signal' = signal + 1
  /\ cpc' = [cpc EXCEPT ![t] = "none"]
  /\ UNCHANGED <<running, stopRequested, watchers, asyncData, ready, lpc,
                 call, batch, unnoticed, stopDue>>

\* epoll_async_send writes 1 to the eventfd, and EAGAIN at the counter's limit
\* is a success; kqueue_async_send triggers the event; iocp_async_send posts
\* an empty packet, which fails when the port can hold no more.
EpollAsyncSend(n) == IF n < SignalMax THEN n + 1 ELSE n
KqueueAsyncSend(n) == 1
IocpLoopStop(n) == IF n < SignalMax THEN n + 1 ELSE n

Sent(n) ==
  CASE backend = "epoll"  -> EpollAsyncSend(n)
    [] backend = "kqueue" -> KqueueAsyncSend(n)
    [] OTHER              -> IocpLoopStop(n)

\* loop->ops->async_send, the second half of both calls
AsyncSend(t) ==
  /\ cpc[t] \in {"stopWake", "sendWake"}
  /\ signal' = Sent(signal)
  /\ cpc' = [cpc EXCEPT ![t] = "none"]
  /\ UNCHANGED <<running, stopRequested, watchers, asyncData, ready, lpc,
                 call, batch, unnoticed, stopDue>>

\* pd_watcher_create: the watcher joins the epoll set and loop->watchers
AddWatcher(t, s) ==
  /\ MayCall(t, "add")
  /\ s \notin watchers
  /\ watchers' = watchers \cup {s}
  /\ UNCHANGED <<running, stopRequested, asyncData, signal, ready, lpc, call,
                 batch, cpc, unnoticed, stopDue>>

\* pd_watcher_destroy: the watcher leaves the epoll set and loop->watchers.
\* Destroying a watcher that the batch still names is the subject of Epoll.
RemoveWatcher(t, s) ==
  /\ MayCall(t, "remove")
  /\ s \in watchers \ batch
  /\ watchers' = watchers \ {s}
  /\ UNCHANGED <<running, stopRequested, asyncData, signal, ready, lpc, call,
                 batch, cpc, unnoticed, stopDue>>

\* A descriptor becomes ready (the peer writes, a timer expires).
SourceReady(s) ==
  /\ ready' = ready \cup {s}
  /\ UNCHANGED <<running, stopRequested, watchers, asyncData, signal,
                 lpc, call, batch, cpc, unnoticed, stopDue>>

LoopStep ==
  \/ LoopRunReset
  \/ LoopRunCheck
  \/ RunOnceCheck
  \/ DispatchAsync
  \/ \E s \in Sources : DispatchSource(s)
  \/ DispatchDone

Step ==
  \/ LoopRunEnter
  \/ \E c \in {"poll", "block"} : LoopRunOnce(c)
  \/ LoopStep
  \/ \E S \in SUBSET (Sources \cup {Async}) : Wait(S)
  \/ WaitNothing
  \/ WaitError
  \/ CallbackReturn
  \/ \E t \in Threads :
       \/ StopSet(t)
       \/ \E d \in Data : SendSet(t, d)
       \/ AsyncSend(t)
       \/ \E s \in Sources : AddWatcher(t, s) \/ RemoveWatcher(t, s)
  \/ \E s \in Sources : SourceReady(s)

Next == Step /\ UNCHANGED backend

Spec == Init /\ [][Next]_vars

(***************************************************************************)
(* Fairness.  The loop thread keeps running (WF on its own steps), a wait  *)
(* with something to report returns, a thread inside an API call finishes  *)
(* it, and a callback makes finitely many calls and returns.  epoll_wait   *)
(* and kevent serve what is ready in turn and the port is a FIFO, so a     *)
(* wake-up is not left out for ever when MaxEvents is exceeded, and        *)
(* signals do not interrupt every wait.  Nobody is obliged to begin a      *)
(* call.                                                                   *)
(***************************************************************************)
Fairness ==
  /\ WF_vars(LoopStep /\ UNCHANGED backend)
  /\ WF_vars((\E S \in SUBSET (Sources \cup {Async}) : Wait(S)) /\ UNCHANGED backend)
  /\ SF_vars((\E S \in SUBSET (Sources \cup {Async}) : Async \in S /\ Wait(S))
             /\ UNCHANGED backend)
  /\ SF_vars(CallbackReturn /\ UNCHANGED backend)
  /\ \A t \in Threads : WF_vars(AsyncSend(t) /\ UNCHANGED backend)

FairSpec == Spec /\ Fairness

-----------------------------------------------------------------------------
(* Properties *)

\* A stop is never slept through: whenever the loop thread is at the wait of
\* its backend and stop_requested is set, either a wake-up already makes the
\* wait return or the thread that called pd_loop_stop has yet to send one.
\* This rests on pd_loop_stop setting the flag before async_send, and on
\* pd_loop_run_once reading the flag before the wait.
NoMissedStop ==
  (lpc = "wait" /\ stopRequested) =>
    \/ signal > 0
    \/ \E t \in Threads : cpc[t] = "stopWake"

\* Async data is never stranded: as long as data stored by
\* pd_loop_async_send has not been followed by the dispatch of a wake-up, one
\* is to be reported or dispatched or the sender has yet to send it, also
\* when wake-ups coalesce and when the counter is at its limit.
NoLostNotify ==
  unnoticed => \/ signal > 0
               \/ Async \in batch
               \/ \E t \in Threads : cpc[t] = "sendWake"

\* pd_loop_stop, called once pd_loop_run has cleared the flag of an earlier
\* stop, makes the loop thread leave pd_loop_run or pd_loop_run_once.
StopEndsRun ==
  (stopRequested /\ lpc \in {"check", "once", "wait", "dispatch", "callback"})
    ~> (lpc = "out")

\* Data sent with pd_loop_async_send is followed by the loop thread
\* dispatching a wake-up, unless the loop thread leaves the loop.
AsyncNoticed == unnoticed ~> (~unnoticed \/ lpc = "out")

\* pd_loop_run returns once its watcher list is empty (poll-dancer.h, "block
\* until there are no more active watchers").
RunEndsWhenEmpty ==
  (call = "run" /\ watchers = {}) ~> (lpc = "out" \/ watchers # {})

\* pd_loop_stop stops a running loop (poll-dancer.h, "Stop a running event
\* loop. This can be called from another thread"): a stop issued while
\* loop->running is set makes pd_loop_run return.
StopOfRunningLoop == stopDue ~> ~stopDue

=============================================================================
