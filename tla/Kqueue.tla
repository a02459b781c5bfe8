------------------------------- MODULE Kqueue -------------------------------
(***************************************************************************)
(* The kqueue backend, src/platform/kqueue.c, under src/watcher.c and      *)
(* src/timer.c: registrations, filters, timers and dispatch, with the      *)
(* kernel's queue.                                                         *)
(*                                                                         *)
(* As in Epoll, one thread calls the API, outside the loop or inside       *)
(* callbacks, and an API call is one step.  A watcher has up to two        *)
(* filters, READ and WRITE, which report separately, so that one batch can *)
(* hold two entries of one watcher.  kevent applies a list of changes in   *)
(* order and gives up at the first that fails.  A timer is a kernel timer  *)
(* keyed by the timer's address; a repeating timer with another initial    *)
(* delay is a one-shot first, which the dispatch turns into a periodic one.*)
(*                                                                         *)
(* watcher->platform_data is set exactly while watcher->active is, and     *)
(* timer_data->registered exactly while timer->active is.                  *)
(***************************************************************************)
EXTENDS FiniteSets, Registrations

CONSTANTS
  Watchers,    \* addresses of pd_watcher_t structures
  NoCallback,  \* the watchers created with a NULL callback
  Timers,      \* pd_timer_t structures
  TwoPhase,    \* timers with interval_ms > 0 and another, positive timeout_ms
  Fds,         \* descriptor numbers
  NoEntry,     \* a filter that is not in the queue
  Nobody,      \* no callback is running
  Masks,       \* event masks passed to pd_watcher_create and _update
  Flags,       \* flags the kernel may set on an event
  MaxEvents,   \* max_events_per_wait
  Faults,      \* the failures that may hit a call
  ChangeMask,  \* pd_watcher_update may change the READ and WRITE bits
  SameBatch    \* callbacks may act on objects with an unprocessed event

Filters == {"READ", "WRITE"}
PdEvents == Filters \cup {"ERROR", "HANGUP", "PRI", "EDGE"}

ASSUME KqueueAssumption ==
  /\ Fds # {}
  /\ NoCallback \subseteq Watchers
  /\ TwoPhase \subseteq Timers
  /\ Watchers \cap Timers = {}
  /\ Nobody \notin Watchers \cup Timers
  /\ Masks \subseteq SUBSET PdEvents
  /\ Flags \subseteq {"ERROR", "EOF"}
  /\ MaxEvents \in Nat \ {0}
  /\ Faults \subseteq {"alloc", "first", "second", "grow", "list", "timer", "rearm"}
  /\ {ChangeMask, SameBatch} \subseteq BOOLEAN

VARIABLES
  open,     \* open descriptors
  kq,       \* the filters in the kernel's queue, by descriptor
  regs,     \* data->registrations[0 .. registration_count - 1]
  alive,    \* allocated watchers
  wfd,      \* watcher->fd
  wev,      \* watcher->events
  active,   \* watcher->active
  stale,    \* history: watchers whose descriptor the application closed, or
            \* had closed before it created them
  tlive,    \* allocated timers
  tactive,  \* the timers with timer->active set
  initial,  \* the timers with timer_data->pending_initial set
  ktimer,   \* the kernel's timers: "none", "oneshot" or "periodic"
  expired,  \* kernel timers with an expiration not yet reported
  lpc,      \* "out", or inside kqueue_loop_run: "dispatch" or "callback"
  batch,    \* entries of data->events not yet processed
  cb        \* the object and the events of the running callback

wvars == <<open, kq, regs, alive, wfd, wev, active, stale>>

tvars == <<tlive, tactive, initial, ktimer, expired>>

lvars == <<lpc, batch, cb>>

vars == <<wvars, tvars, lvars>>

-----------------------------------------------------------------------------
(* The records r and the queue k, as values; o is the set of open           *)
(* descriptors.                                                             *)

Records == [fd : Fds, watcher : Watchers]

Entries == [udata : Watchers, clear : BOOLEAN, enabled : BOOLEAN]

ASSUME NoEntryAssumption == NoEntry \notin Entries

Done(ok, r, k) == [ok |-> ok, regs |-> r, kq |-> k]

\* EV_ADD | EV_ENABLE of the filters in S; a filter that exists is modified
AddFilters(k, w, fd, S, events) ==
  [k EXCEPT ![fd] =
     [x \in Filters |-> IF x \in S
                          THEN [udata |-> w, clear |-> "EDGE" \in events,
                                enabled |-> TRUE]
                          ELSE k[fd][x]]]

\* EV_DISABLE of the filters in S
DisableFilters(k, fd, S) ==
  [k EXCEPT ![fd] =
     [x \in Filters |-> IF x \in S /\ k[fd][x] # NoEntry
                          THEN [k[fd][x] EXCEPT !.enabled = FALSE]
                          ELSE k[fd][x]]]

\* EV_DELETE of the filters in S, READ before WRITE: when READ is not there
\* kevent fails with ENOENT and WRITE is not tried
DeleteFilters(k, fd, S) ==
  IF "READ" \in S /\ k[fd]["READ"] = NoEntry
    THEN k
    ELSE [k EXCEPT ![fd] = [x \in Filters |-> IF x \in S THEN NoEntry ELSE k[fd][x]]]

\* Mutant: the filters stay when the records cannot grow
RegisterNoUndo(o, r, k, w, fd, events, fault) ==
  LET kept == EvictStale(r, fd, w)
      want == events \cap Filters
  IN  CASE fault \in {"alloc", "first", "second"} \/ fd \notin o -> Done(FALSE, kept, k)
        [] OTHER -> Done(fault # "grow",
                         IF fault = "grow" THEN kept
                           ELSE Append(kept, [fd |-> fd, watcher |-> w]),
                         AddFilters(k, w, fd, want, events))

\* kqueue_watcher_register: the changes for READ and WRITE in one kevent call,
\* which fails on a closed descriptor and for want of memory at the first or
\* only at the second change; no call is made without READ and WRITE.  When
\* the records cannot grow, the filters are deleted again.
Register(o, r, k, w, fd, events, fault) ==
  LET kept == EvictStale(r, fd, w)
      want == events \cap Filters
  IN  CASE fault = "alloc" -> Done(FALSE, r, k)
        [] fault # "alloc" /\ want # {} /\ (fd \notin o \/ fault = "first") ->
             Done(FALSE, kept, k)
        [] fd \in o /\ want = Filters /\ fault = "second" ->
             Done(FALSE, kept, AddFilters(k, w, fd, {"READ"}, events))
        [] fault = "grow" /\ (fd \in o \/ want = {}) ->
             Done(FALSE, kept,
                  DeleteFilters(AddFilters(k, w, fd, want, events), fd, want))
        [] OTHER -> Done(TRUE, Append(kept, [fd |-> fd, watcher |-> w]),
                         AddFilters(k, w, fd, want, events))

\* Mutant: the filters are deleted by descriptor, whoever owns it now
UnregisterByFd(r, k, w, fd, events) ==
  Done(TRUE,
       IF Owns(r, w) THEN RemoveRecord(r, OwnRecord(r, w)) ELSE r,
       DeleteFilters(k, fd, events \cap Filters))

\* kqueue_watcher_unregister of a watcher with platform data: only the owner
\* of a record deletes the filters its mask names, and errors are ignored
Unregister(r, k, w, fd, events) ==
  IF Owns(r, w)
    THEN Done(TRUE, RemoveRecord(r, OwnRecord(r, w)),
              DeleteFilters(k, fd, events \cap Filters))
    ELSE Done(TRUE, r, k)

\* kqueue_watcher_update, which compares the new mask with the one that
\* watcher->events holds at that point
Modify(k, w, fd, held, events) ==
  LET off == (held \ events) \cap Filters
      on  == (events \ held) \cap Filters
  IN  AddFilters(DisableFilters(k, fd, off), w, fd, on, events)

\* pd_watcher_init: register, then join loop->watchers, whose failure
\* ("list") is undone by unregistering
InitWatcher(o, r, k, w, fd, events, fault) ==
  LET reg   == Register(o, r, k, w, fd, events, fault)
      unreg == Unregister(reg.regs, reg.kq, w, fd, events)
  IN  IF reg.ok /\ fault = "list"
        THEN Done(FALSE, unreg.regs, unreg.kq)
        ELSE reg

\* What pd_watcher_stop does with the backend, and pd_watcher_destroy too: the
\* second unregistration, in pd_watcher_cleanup, finds no platform data
StopWatcher(r, k, w, fd, events, isActive) ==
  IF isActive THEN Unregister(r, k, w, fd, events) ELSE Done(TRUE, r, k)

-----------------------------------------------------------------------------
NoCb == [ptr |-> Nobody, events |-> {}]

NoFilters == [x \in Filters |-> NoEntry]

\* The descriptor of a watcher that does not exist, which does not matter
AnyFd == CHOOSE f \in Fds : TRUE

(***************************************************************************)
(* Type invariant: records, filters and batch name known objects, a closed *)
(* descriptor has no filters, and nothing of a destroyed timer is left.    *)
(***************************************************************************)
KqueueTypeOK ==
  /\ open \subseteq Fds
  /\ kq \in [Fds -> [Filters -> Entries \cup {NoEntry}]]
  /\ regs \in Seq(Records)
  /\ alive \subseteq Watchers /\ stale \subseteq alive
  /\ wfd \in [Watchers -> Fds]
  /\ wev \in [Watchers -> SUBSET PdEvents]
  /\ active \in [Watchers -> BOOLEAN]
  /\ tlive \subseteq Timers /\ tactive \subseteq tlive
  /\ initial \subseteq TwoPhase \cap tlive
  /\ ktimer \in [Timers -> {"none", "oneshot", "periodic"}]
  /\ expired \subseteq {t \in Timers : ktimer[t] # "none"}
  /\ lpc \in {"out", "dispatch", "callback"}
  /\ \A e \in batch : /\ e.kind \in Filters \cup {"TIMER"}
                      /\ e.ptr \in Watchers \cup Timers
                      /\ e.flags \subseteq Flags
  /\ cb \in [ptr : Watchers \cup Timers \cup {Nobody}, events : SUBSET PdEvents]
  /\ \A f \in Fds \ open : kq[f] = NoFilters

Init ==
  /\ open = {}
  /\ kq = [f \in Fds |-> NoFilters]
  /\ regs = <<>>
  /\ alive = {} /\ stale = {}
  /\ wfd = [w \in Watchers |-> AnyFd]
  /\ wev = [w \in Watchers |-> {}]
  /\ active = [w \in Watchers |-> FALSE]
  /\ tlive = {} /\ tactive = {} /\ initial = {} /\ expired = {}
  /\ ktimer = [t \in Timers |-> "none"]
  /\ lpc = "out"
  /\ batch = {}
  /\ cb = NoCb

AppRuns == lpc \in {"out", "callback"}

MayTouch(p) == AppRuns /\ (SameBatch \/ \A e \in batch : e.ptr # p)

-----------------------------------------------------------------------------
(* The application's descriptors, and the watcher API. *)

OpenFd(f) ==
  /\ AppRuns
  /\ f \notin open
  /\ open' = open \cup {f}
  /\ UNCHANGED <<kq, regs, alive, wfd, wev, active, stale, tvars, lvars>>

\* close(fd), which takes the filters of fd out of the queue
CloseFd(f) ==
  /\ AppRuns
  /\ f \in open
  /\ open' = open \ {f}
  /\ kq' = [kq EXCEPT ![f] = NoFilters]
  /\ stale' = stale \cup {w \in alive : wfd[w] = f}
  /\ UNCHANGED <<regs, alive, wfd, wev, active, tvars, lvars>>

\* pd_watcher_create, on a descriptor without another watcher that is in use.
\* Without READ and WRITE in the mask it succeeds on a closed descriptor too.
Create(w, f, events, fault) ==
  LET new == InitWatcher(open, regs, kq, w, f, events, fault)
  IN  /\ AppRuns
      /\ w \notin alive
      /\ \A v \in alive \ stale : wfd[v] # f
      /\ regs' = new.regs
      /\ kq' = new.kq
      /\ IF new.ok
           THEN /\ alive' = alive \cup {w}
                /\ wfd' = [wfd EXCEPT ![w] = f]
                /\ wev' = [wev EXCEPT ![w] = events]
                /\ active' = [active EXCEPT ![w] = TRUE]
                /\ stale' = IF f \in open THEN stale ELSE stale \cup {w}
           ELSE UNCHANGED <<alive, wfd, wev, active, stale>>
      /\ UNCHANGED <<open, tvars, lvars>>

\* pd_watcher_start of a stopped watcher
Start(w, fault) ==
  LET reg == Register(open, regs, kq, w, wfd[w], wev[w], fault)
  IN  /\ MayTouch(w)
      /\ w \in alive \ stale
      /\ ~active[w]
      /\ regs' = reg.regs
      /\ kq' = reg.kq
      /\ active' = [active EXCEPT ![w] = reg.ok]
      /\ UNCHANGED <<open, alive, wfd, wev, stale, tvars, lvars>>

\* pd_watcher_stop of an active watcher
Stop(w) ==
  LET unreg == StopWatcher(regs, kq, w, wfd[w], wev[w], TRUE)
  IN  /\ MayTouch(w)
      /\ w \in alive
      /\ active[w]
      /\ regs' = unreg.regs
      /\ kq' = unreg.kq
      /\ active' = [active EXCEPT ![w] = FALSE]
      /\ UNCHANGED <<open, alive, wfd, wev, stale, tvars, lvars>>

\* pd_watcher_update of an active watcher: watcher->events is overwritten
\* first, so the backend finds the new mask on both sides of its comparison
Update(w, events) ==
  /\ MayTouch(w)
  /\ w \in alive \ stale
  /\ active[w]
  /\ \/ ChangeMask
     \/ events \cap (Filters \cup {"EDGE"}) = wev[w] \cap (Filters \cup {"EDGE"})
  /\ wev' = [wev EXCEPT ![w] = events]
  /\ kq' = Modify(kq, w, wfd[w], wev'[w], events)
  /\ UNCHANGED <<open, regs, alive, wfd, active, stale, tvars, lvars>>

\* pd_watcher_destroy
Destroy(w) ==
  LET gone == StopWatcher(regs, kq, w, wfd[w], wev[w], active[w])
  IN  /\ MayTouch(w)
      /\ w \in alive
      /\ regs' = gone.regs
      /\ kq' = gone.kq
      /\ alive' = alive \ {w}
      /\ stale' = stale \ {w}
      /\ wfd' = [wfd EXCEPT ![w] = AnyFd]
      /\ wev' = [wev EXCEPT ![w] = {}]
      /\ active' = [active EXCEPT ![w] = FALSE]
      /\ UNCHANGED <<open, tvars, lvars>>

-----------------------------------------------------------------------------
(* Timers *)

\* pd_timer_create; a failure leaves nothing behind
TimerCreate(t) ==
  /\ AppRuns
  /\ t \notin tlive
  /\ tlive' = tlive \cup {t}
  /\ UNCHANGED <<wvars, tactive, initial, ktimer, expired, lvars>>

\* pd_timer_start of a timer that is not active: pending_initial is set before
\* kevent adds the timer, whose failure ("timer") leaves it as it is
TimerStart(t, fault) ==
  /\ MayTouch(t)
  /\ t \in tlive \ tactive
  /\ initial' = IF t \in TwoPhase THEN initial \cup {t} ELSE initial \ {t}
  /\ IF fault = "timer"
       THEN UNCHANGED <<tactive, ktimer>>
       ELSE /\ tactive' = tactive \cup {t}
            /\ ktimer' = [ktimer EXCEPT ![t] = IF t \in TwoPhase THEN "oneshot"
                                                                ELSE "periodic"]
  /\ UNCHANGED <<wvars, tlive, expired, lvars>>

\* kqueue_timer_stop: EV_DELETE, which also discards an unreported expiration
Disarm(t) ==
  /\ tactive' = tactive \ {t}
  /\ initial' = initial \ {t}
  /\ ktimer' = [ktimer EXCEPT ![t] = "none"]
  /\ expired' = expired \ {t}

\* pd_timer_stop of an active timer
TimerStop(t) ==
  /\ MayTouch(t)
  /\ t \in tactive
  /\ Disarm(t)
  /\ UNCHANGED <<wvars, tlive, lvars>>

\* Mutant: pd_timer_destroy does not stop an active timer
TimerDestroyRunning(t) ==
  /\ MayTouch(t)
  /\ t \in tlive
  /\ tlive' = tlive \ {t}
  /\ UNCHANGED <<wvars, tactive, initial, ktimer, expired, lvars>>

\* pd_timer_destroy: stop if active, then free timer_data, the placeholder
\* watcher and the timer
TimerDestroy(t) ==
  /\ MayTouch(t)
  /\ t \in tlive
  /\ tlive' = tlive \ {t}
  /\ Disarm(t)
  /\ UNCHANGED <<wvars, lvars>>

\* The kernel: a timer in the queue expires.
Expire(t) ==
  /\ ktimer[t] # "none"
  /\ expired' = expired \cup {t}
  /\ UNCHANGED <<wvars, tlive, tactive, initial, ktimer, lvars>>

-----------------------------------------------------------------------------
(* kqueue_loop_run *)

\* What kevent can report
Ready ==
  LET on == {p \in Fds \X Filters : LET x == kq[p[1]][p[2]]
                                   IN  x # NoEntry /\ x.enabled}
  IN  {[kind |-> p[2], ident |-> p[1], ptr |-> kq[p[1]][p[2]].udata, flags |-> g]
         : p \in on, g \in SUBSET Flags}
        \cup {[kind |-> "TIMER", ident |-> t, ptr |-> t, flags |-> {}] : t \in expired}

\* The batches kevent can return: at most one event of each filter and timer
Batches ==
  {S \in SUBSET Ready : /\ S # {} /\ Cardinality(S) <= MaxEvents
                        /\ \A d, e \in S : d.kind = e.kind /\ d.ident = e.ident => d = e}

\* kevent returns the events S; a one-shot timer leaves the queue with its event
KeventWait(S) ==
  LET fired == {e.ptr : e \in {d \in S : d.kind = "TIMER"}}
  IN  /\ batch' = S
      /\ lpc' = "dispatch"
      /\ expired' = expired \ fired
      /\ ktimer' = [t \in Timers |-> IF t \in fired /\ ktimer[t] = "oneshot"
                                       THEN "none" ELSE ktimer[t]]
      /\ UNCHANGED <<wvars, tlive, tactive, initial, cb>>

\* Mutant: EV_EOF is reported as an exceptional condition
KeventToEventsPri(e) ==
  {e.kind} \cup (IF "EOF" \in e.flags THEN {"PRI"} ELSE {})

\* The conversion of an event of a watcher
KeventToEvents(e) ==
  {e.kind} \cup (IF "ERROR" \in e.flags THEN {"ERROR"} ELSE {})
           \cup (IF "EOF" \in e.flags THEN {"HANGUP"} ELSE {})

\* An event of a filter: the watcher's callback starts, unless it is NULL
DispatchWatcher(e) ==
  /\ lpc = "dispatch"
  /\ e \in batch
  /\ e.kind # "TIMER"
  /\ batch' = batch \ {e}
  /\ IF e.ptr \in NoCallback
       THEN UNCHANGED <<lpc, cb>>
       ELSE /\ lpc' = "callback"
            /\ cb' = [ptr |-> e.ptr, events |-> KeventToEvents(e)]
  /\ UNCHANGED <<wvars, tvars>>

\* Mutant: the one-shot phase is not followed by a periodic one
DispatchTimerOnce(e) ==
  /\ lpc = "dispatch"
  /\ e \in batch
  /\ e.kind = "TIMER"
  /\ batch' = batch \ {e}
  /\ initial' = initial \ {e.ptr}
  /\ lpc' = "callback"
  /\ cb' = [ptr |-> e.ptr, events |-> {"READ"}]
  /\ UNCHANGED <<wvars, tlive, tactive, ktimer, expired>>

\* Mutant: pending_initial is not cleared
DispatchTimerAgain(e) ==
  /\ lpc = "dispatch"
  /\ e \in batch
  /\ e.kind = "TIMER"
  /\ batch' = batch \ {e}
  /\ ktimer' = IF e.ptr \in initial THEN [ktimer EXCEPT ![e.ptr] = "periodic"] ELSE ktimer
  /\ lpc' = "callback"
  /\ cb' = [ptr |-> e.ptr, events |-> {"READ"}]
  /\ UNCHANGED <<wvars, tlive, tactive, initial, expired>>

\* An event of a timer: the first one of a two-phase timer adds it again as a
\* periodic one, ignoring a failure ("rearm"), before the callback starts
DispatchTimer(e) ==
  /\ lpc = "dispatch"
  /\ e \in batch
  /\ e.kind = "TIMER"
  /\ batch' = batch \ {e}
  /\ initial' = initial \ {e.ptr}
  /\ \E kind \in {"periodic"} \cup (IF "rearm" \in Faults THEN {"none"} ELSE {}) :
       ktimer' = IF e.ptr \in initial THEN [ktimer EXCEPT ![e.ptr] = kind] ELSE ktimer
  /\ lpc' = "callback"
  /\ cb' = [ptr |-> e.ptr, events |-> {"READ"}]
  /\ UNCHANGED <<wvars, tlive, tactive, expired>>

CallbackReturn ==
  /\ lpc = "callback"
  /\ lpc' = "dispatch"
  /\ cb' = NoCb
  /\ UNCHANGED <<wvars, tvars, batch>>

LoopReturn ==
  /\ lpc = "dispatch"
  /\ batch = {}
  /\ lpc' = "out"
  /\ UNCHANGED <<wvars, tvars, batch, cb>>

Next ==
  \/ \E f \in Fds : OpenFd(f) \/ CloseFd(f)
  \/ \E w \in Watchers :
       \/ \E f \in Fds, events \in Masks,
            fault \in (Faults \ {"timer", "rearm"}) \cup {"none"} :
            Create(w, f, events, fault)
       \/ \E fault \in (Faults \ {"list", "timer", "rearm"}) \cup {"none"} :
            Start(w, fault)
       \/ Stop(w)
       \/ \E events \in Masks : Update(w, events)
       \/ Destroy(w)
  \/ \E t \in Timers :
       \/ TimerCreate(t)
       \/ \E fault \in (Faults \cap {"timer"}) \cup {"none"} : TimerStart(t, fault)
       \/ TimerStop(t)
       \/ TimerDestroy(t)
       \/ Expire(t)
  \/ lpc = "out" /\ \E S \in Batches : KeventWait(S)
  \/ \E e \in batch : DispatchWatcher(e) \/ DispatchTimer(e)
  \/ CallbackReturn
  \/ LoopReturn

Spec == Init /\ [][Next]_vars

(***************************************************************************)
(* Fairness: time passes, the application keeps running the loop, its      *)
(* callbacks return, and kevent does not pass over an expired timer for    *)
(* ever.                                                                   *)
(***************************************************************************)
Fairness ==
  /\ \A t \in Timers :
       /\ WF_vars(Expire(t))
       /\ SF_vars(lpc = "out" /\ \E S \in Batches : (\E e \in S : e.ptr = t) /\ KeventWait(S))
  /\ WF_vars(\E e \in batch : DispatchWatcher(e) \/ DispatchTimer(e))
  /\ SF_vars(CallbackReturn)
  /\ WF_vars(LoopReturn)

FairSpec == Spec /\ Fairness

-----------------------------------------------------------------------------
(* Properties *)

\* The queue holds exactly the filters that an active watcher asks for, under
\* that watcher, unless the application has closed its descriptor: stale
\* watchers of a recycled number do not take them away
\* (kqueue_watcher_unregister, OFFS-246), and pd_watcher_update applies
\* "the new events to monitor" (poll-dancer.h).
ActiveIsMember ==
  \A w \in alive \ stale :
    active[w] =>
      kq[wfd[w]] = AddFilters([f \in Fds |-> NoFilters], w, wfd[w],
                              wev[w] \cap Filters, wev[w])[wfd[w]]

\* The queue never holds a pointer to a watcher that was freed or stopped,
\* failed registrations included (kqueue_watcher_register: "simply unusable
\* rather than half-armed"), and the descriptor's one record names that
\* watcher ("our own record is the ident's only one").
NoDanglingEntry ==
  \A f \in Fds, x \in Filters :
    kq[f][x] # NoEntry =>
      LET w == kq[f][x].udata
      IN  /\ w \in alive
          /\ active[w]
          /\ wfd[w] = f
          /\ \E i \in DOMAIN regs :
               /\ regs[i] = [fd |-> f, watcher |-> w]
               /\ \A j \in DOMAIN regs \ {i} : regs[j].fd # f

\* kqueue_loop_run dereferences only live watchers and timers, and calls only
\* active ones.
DispatchesLive ==
  [][\A e \in batch \ batch' :
       e.ptr \in IF e.kind = "TIMER" THEN tactive ELSE {w \in alive : active[w]}]_vars

\* The watchers over kqueue implement the contract of poll-dancer.h: with two
\* filters for a watcher, recycled descriptors and failing calls, a callback
\* runs only for an active watcher and for events that it asked for, or a
\* hang-up or error.  Callbacks of timers are none of the contract's.
Contract == INSTANCE WatcherContract WITH
  None    <- Nobody,
  Always  <- {"ERROR", "HANGUP"},
  status  <- [w \in Watchers |-> IF w \notin alive THEN "none"
                                ELSE IF active[w] THEN "watching" ELSE "stopped"],
  mask    <- wev,
  running <- IF cb.ptr \in Watchers THEN [w |-> cb.ptr, events |-> cb.events]
                                    ELSE [w |-> Nobody, events |-> {}]

ImplementsContract == Contract!Spec

\* A started timer stays in the queue until it is stopped; only between the
\* report of its one-shot phase and the dispatch that makes it periodic is it
\* not there, and pending_initial tells the phases apart.  A timer that was
\* stopped or destroyed is not in the queue.
StartedIsPending ==
  /\ \A t \in tactive :
       LET reported == \E e \in batch : e.ptr = t
       IN  /\ ktimer[t] = "none" => reported
           /\ t \in initial <=> ktimer[t] # "periodic"
  /\ \A t \in Timers \ tactive : ktimer[t] = "none"

\* A repeating timer with another initial delay leaves its one-shot phase:
\* it fires a first time and becomes periodic, or is stopped.
InitialPhaseEnds == \A t \in TwoPhase : (t \in initial \cap tactive) ~> (t \notin initial)

=============================================================================
