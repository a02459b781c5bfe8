-------------------------------- MODULE Epoll --------------------------------
(***************************************************************************)
(* Watchers over the epoll backend: src/watcher.c and the registration and *)
(* dispatch halves of src/platform/epoll.c, with the kernel's epoll set.   *)
(*                                                                         *)
(* One thread calls the API, outside the loop or inside callbacks, so an   *)
(* API call is one step.  Watchers are heap addresses, which malloc may    *)
(* hand out again after a free; descriptors are numbers, which the kernel  *)
(* hands out again after a close.  Both kinds of reuse are what the        *)
(* registration records (fd, watcher) have to survive.                     *)
(*                                                                         *)
(* loop->watchers holds exactly the live watchers between API calls, and   *)
(* watcher->platform_data is set exactly while watcher->active is, so      *)
(* neither has a variable of its own.                                      *)
(***************************************************************************)
EXTENDS FiniteSets, Registrations

CONSTANTS
  Watchers,    \* addresses of pd_watcher_t structures
  NoCallback,  \* the watchers created with a NULL callback
  Fds,         \* descriptor numbers
  NoEntry,     \* a descriptor that is not in the epoll set
  NoWatcher,   \* no callback is running
  Masks,       \* event masks passed to pd_watcher_create and _update
  Conds,       \* conditions the kernel may report on a descriptor
  MaxEvents,   \* max_events_per_wait
  Faults,      \* the resource failures that may hit a registration
  CloseEarly,  \* the application may close a descriptor before its watcher
  ReuseAddr,   \* malloc may reuse the address of a watcher torn down stale
  ShareFd,     \* the application may create a second watcher of a descriptor
  SameBatch,   \* callbacks may act on watchers with an unprocessed event
  StaleUse     \* the application may start or update a watcher whose descriptor
               \* it has closed

PdEvents == {"READ", "WRITE", "ERROR", "HANGUP", "PRI", "EDGE"}
EpollBits == {"IN", "OUT", "ERR", "HUP", "RDHUP", "PRI", "ET"}

ASSUME EpollAssumption ==
  /\ Fds # {}
  /\ NoCallback \subseteq Watchers
  /\ NoWatcher \notin Watchers
  /\ Masks \subseteq SUBSET PdEvents
  /\ Conds \subseteq EpollBits \ {"ET"}
  /\ MaxEvents \in Nat \ {0}
  /\ Faults \subseteq {"alloc", "ctl", "grow", "list"}
  /\ {CloseEarly, ReuseAddr, ShareFd, SameBatch, StaleUse} \subseteq BOOLEAN

VARIABLES
  open,    \* open descriptors
  mem,     \* the kernel's epoll set: descriptor -> [ptr, events] or NoEntry
  regs,    \* data->registrations[0 .. registration_count - 1]
  alive,   \* allocated watchers
  wfd,     \* watcher->fd
  wev,     \* watcher->events
  active,  \* watcher->active
  stale,   \* history: watchers whose descriptor the application has closed
  tainted, \* history: addresses of watchers destroyed when stale
  lpc,     \* "out", or inside epoll_loop_run: "dispatch" or "callback"
  batch,   \* entries of data->events not yet processed
  cb       \* the watcher and the events of the running callback

evars == <<open, mem, regs, alive, wfd, wev, active, stale, tainted, lpc, batch, cb>>

-----------------------------------------------------------------------------
(* events_to_epoll and epoll_to_events *)

\* Mutant: the poll-dancer mask is handed to the kernel as it is
EventsToEpollRaw(events) == events

EventsToEpoll(events) ==
  UNION {CASE e = "READ"   -> {"IN"}
           [] e = "WRITE"  -> {"OUT"}
           [] e = "ERROR"  -> {"ERR"}
           [] e = "HANGUP" -> {"HUP", "RDHUP"}
           [] e = "PRI"    -> {"PRI"}
           [] e = "EDGE"   -> {"ET"} : e \in events}

\* Mutant: EPOLLRDHUP is reported as readable
EpollToEventsRdhup(bits) ==
  UNION {CASE b \in {"IN", "RDHUP"} -> {"READ"}
           [] b = "OUT"  -> {"WRITE"}
           [] b = "ERR"  -> {"ERROR"}
           [] b = "HUP"  -> {"HANGUP"}
           [] b = "PRI"  -> {"PRI"}
           [] b = "ET"   -> {} : b \in bits}

EpollToEvents(bits) ==
  UNION {CASE b = "IN"   -> {"READ"}
           [] b = "OUT"  -> {"WRITE"}
           [] b = "ERR"  -> {"ERROR"}
           [] b \in {"HUP", "RDHUP"} -> {"HANGUP"}
           [] b = "PRI"  -> {"PRI"}
           [] b = "ET"   -> {} : b \in bits}

-----------------------------------------------------------------------------
(* The registration records r and the kernel's set m, as values; o is the  *)
(* set of open descriptors.                                                *)

Records == [fd : Fds, watcher : Watchers]

Entries == [ptr : Watchers, events : SUBSET EpollBits]

ASSUME NoEntryAssumption == NoEntry \notin Entries

Done(ok, r, m) == [ok |-> ok, regs |-> r, mem |-> m]

\* epoll_watcher_register.  EPOLL_CTL_ADD fails on a closed descriptor
\* (EBADF), on one that is in the set already (EEXIST) and for want of
\* kernel memory ("ctl"); when the records cannot grow, the ADD is undone.
Register(o, r, m, w, fd, events, fault) ==
  LET kept == EvictStale(r, fd, w)
  IN  IF fault = "alloc" THEN Done(FALSE, r, m)
      ELSE IF \/ fd \notin o
              \/ m[fd] # NoEntry
              \/ fault \in {"ctl", "grow"} THEN Done(FALSE, kept, m)
      ELSE Done(TRUE,
                Append(kept, [fd |-> fd, watcher |-> w]),
                [m EXCEPT ![fd] = [ptr |-> w, events |-> EventsToEpoll(events)]])

\* Mutant: the DEL is issued by descriptor, whoever owns it now
UnregisterByFd(o, r, m, w, fd) ==
  Done(TRUE,
       IF Owns(r, w) THEN RemoveRecord(r, OwnRecord(r, w)) ELSE r,
       [m EXCEPT ![fd] = NoEntry])

\* epoll_watcher_unregister.  Without a record nothing is deleted; the DEL of
\* an open descriptor that is not in the set fails with ENOENT and keeps the
\* record; on a closed one it fails with EBADF, which is tolerated.
Unregister(o, r, m, w, fd) ==
  CASE ~Owns(r, w) -> Done(TRUE, r, m)
    [] Owns(r, w) /\ fd \in o /\ m[fd] = NoEntry -> Done(FALSE, r, m)
    [] OTHER -> Done(TRUE, RemoveRecord(r, OwnRecord(r, w)),
                     [m EXCEPT ![fd] = NoEntry])

\* epoll_watcher_update: EPOLL_CTL_MOD, which fails when the descriptor is
\* not in the set
Modify(m, w, fd, events) ==
  IF m[fd] = NoEntry
    THEN m
    ELSE [m EXCEPT ![fd] = [ptr |-> w, events |-> EventsToEpoll(events)]]

\* Mutant: pd_watcher_init does not unregister when the list cannot grow
InitWatcherNoRollback(o, r, m, w, fd, events, fault) ==
  LET reg == Register(o, r, m, w, fd, events, fault)
  IN  Done(reg.ok /\ fault # "list", reg.regs, reg.mem)

\* pd_watcher_init: register, then join loop->watchers; a failure of the
\* latter ("list") is undone by unregistering
InitWatcher(o, r, m, w, fd, events, fault) ==
  LET reg   == Register(o, r, m, w, fd, events, fault)
      unreg == Unregister(o, reg.regs, reg.mem, w, fd)
  IN  IF reg.ok /\ fault = "list"
        THEN Done(FALSE, unreg.regs, unreg.mem)
        ELSE reg

\* What pd_watcher_stop does with the backend
StopWatcher(o, r, m, w, fd, isActive) ==
  IF isActive THEN Unregister(o, r, m, w, fd) ELSE Done(TRUE, r, m)

\* pd_watcher_destroy up to the free: pd_watcher_stop, then
\* pd_watcher_cleanup, which unregisters once more; failures are ignored
DestroyWatcher(o, r, m, w, fd, isActive) ==
  LET stopped == StopWatcher(o, r, m, w, fd, isActive)
  IN  Unregister(o, stopped.regs, stopped.mem, w, fd)

-----------------------------------------------------------------------------
(***************************************************************************)
(* Type invariant: the records and the kernel's set name known watchers    *)
(* and descriptors, and a closed descriptor is in no set.                  *)
(***************************************************************************)
EpollTypeOK ==
  /\ open \subseteq Fds
  /\ mem \in [Fds -> Entries \cup {NoEntry}]
  /\ regs \in Seq(Records)
  /\ alive \subseteq Watchers
  /\ wfd \in [Watchers -> Fds]
  /\ wev \in [Watchers -> SUBSET PdEvents]
  /\ active \in [Watchers -> BOOLEAN]
  /\ stale \subseteq alive
  /\ tainted \subseteq Watchers
  /\ lpc \in {"out", "dispatch", "callback"}
  /\ \A e \in batch : /\ e.fd \in Fds
                      /\ e.ptr \in Watchers
                      /\ e.bits \subseteq EpollBits
  /\ cb \in [w : Watchers \cup {NoWatcher}, events : SUBSET PdEvents]
  /\ \A f \in Fds \ open : mem[f] = NoEntry

NoCb == [w |-> NoWatcher, events |-> {}]

\* The fields of a watcher that does not exist, whose values do not matter
AnyFd == CHOOSE f \in Fds : TRUE

EpollInit ==
  /\ open = {}
  /\ mem = [f \in Fds |-> NoEntry]
  /\ regs = <<>>
  /\ alive = {}
  /\ wfd = [w \in Watchers |-> AnyFd]
  /\ wev = [w \in Watchers |-> {}]
  /\ active = [w \in Watchers |-> FALSE]
  /\ stale = {}
  /\ tainted = {}
  /\ lpc = "out"
  /\ batch = {}
  /\ cb = NoCb

\* The thread is in application code, and may call the API on w.  Unless
\* StaleUse, the application does not start or update a watcher whose
\* descriptor it has closed: what it has to do with one is stop or destroy it.
AppRuns == lpc \in {"out", "callback"}

MayTouch(w) == AppRuns /\ (SameBatch \/ \A e \in batch : e.ptr # w)

Usable == IF StaleUse THEN alive ELSE alive \ stale

-----------------------------------------------------------------------------
(* The application's descriptors. *)

OpenFd(f) ==
  /\ AppRuns
  /\ f \notin open
  /\ open' = open \cup {f}
  /\ UNCHANGED <<mem, regs, alive, wfd, wev, active, stale, tainted, lpc, batch, cb>>

\* close(fd): the descriptor leaves the epoll set with its last reference
CloseFd(f) ==
  /\ AppRuns
  /\ f \in open
  /\ CloseEarly \/ \A w \in alive \ stale : wfd[w] # f
  /\ open' = open \ {f}
  /\ mem' = [mem EXCEPT ![f] = NoEntry]
  /\ stale' = stale \cup {w \in alive : wfd[w] = f}
  /\ UNCHANGED <<regs, alive, wfd, wev, active, tainted, lpc, batch, cb>>

-----------------------------------------------------------------------------
(* The watcher API. *)

\* An address malloc may return, and a descriptor the application may watch
Fresh(w) == w \notin alive /\ (ReuseAddr \/ w \notin tainted)

Free(f) == ShareFd \/ \A v \in alive \ stale : wfd[v] # f

\* pd_watcher_create; when pd_watcher_init fails the watcher is freed again
Create(w, f, events, fault) ==
  LET new == InitWatcher(open, regs, mem, w, f, events, fault)
  IN  /\ AppRuns
      /\ Fresh(w)
      /\ Free(f)
      /\ regs' = new.regs
      /\ mem' = new.mem
      /\ IF new.ok
           THEN /\ alive' = alive \cup {w}
                /\ wfd' = [wfd EXCEPT ![w] = f]
                /\ wev' = [wev EXCEPT ![w] = events]
                /\ active' = [active EXCEPT ![w] = TRUE]
           ELSE UNCHANGED <<alive, wfd, wev, active>>
      /\ UNCHANGED <<open, stale, tainted, lpc, batch, cb>>

\* pd_watcher_start of a stopped watcher, active again unless it fails
Start(w, fault) ==
  LET reg == Register(open, regs, mem, w, wfd[w], wev[w], fault)
  IN  /\ MayTouch(w)
      /\ w \in Usable
      /\ ~active[w]
      /\ regs' = reg.regs
      /\ mem' = reg.mem
      /\ active' = [active EXCEPT ![w] = reg.ok]
      /\ UNCHANGED <<open, alive, wfd, wev, stale, tainted, lpc, batch, cb>>

\* pd_watcher_stop of an active watcher, still active when it fails
Stop(w) ==
  LET unreg == StopWatcher(open, regs, mem, w, wfd[w], TRUE)
  IN  /\ MayTouch(w)
      /\ w \in alive
      /\ active[w]
      /\ regs' = unreg.regs
      /\ mem' = unreg.mem
      /\ active' = [active EXCEPT ![w] = ~unreg.ok]
      /\ UNCHANGED <<open, alive, wfd, wev, stale, tainted, lpc, batch, cb>>

\* pd_watcher_update of an active watcher: store the mask, then call the
\* backend, whose failure leaves the mask stored
Update(w, events) ==
  /\ MayTouch(w)
  /\ w \in Usable
  /\ active[w]
  /\ wev' = [wev EXCEPT ![w] = events]
  /\ mem' = Modify(mem, w, wfd[w], events)
  /\ UNCHANGED <<open, regs, alive, wfd, active, stale, tainted, lpc, batch, cb>>

\* free(watcher)
Forget(w) ==
  /\ wfd' = [wfd EXCEPT ![w] = AnyFd]
  /\ wev' = [wev EXCEPT ![w] = {}]
  /\ active' = [active EXCEPT ![w] = FALSE]

\* pd_watcher_destroy
Destroy(w) ==
  LET gone == DestroyWatcher(open, regs, mem, w, wfd[w], active[w])
  IN  /\ MayTouch(w)
      /\ w \in alive
      /\ regs' = gone.regs
      /\ mem' = gone.mem
      /\ alive' = alive \ {w}
      /\ stale' = stale \ {w}
      /\ tainted' = tainted \cup ({w} \cap stale)
      /\ Forget(w)
      /\ UNCHANGED <<open, lpc, batch, cb>>

-----------------------------------------------------------------------------
(* epoll_loop_run. *)

\* The kernel reports the requested conditions, and EPOLLERR and EPOLLHUP
\* whether they are requested or not.
Reports(f) == Conds \cap (mem[f].events \cup {"ERR", "HUP"})

\* epoll_wait returns one entry for each descriptor of F
EpollWait(F, bits) ==
  /\ lpc = "out"
  /\ F # {} /\ Cardinality(F) <= MaxEvents
  /\ \A f \in F : /\ mem[f] # NoEntry
                  /\ bits[f] # {}
                  /\ bits[f] \subseteq Reports(f)
  /\ batch' = {[fd |-> f, ptr |-> mem[f].ptr, bits |-> bits[f]] : f \in F}
  /\ lpc' = "dispatch"
  /\ UNCHANGED <<open, mem, regs, alive, wfd, wev, active, stale, tainted, cb>>

\* One entry of data->events: its data.ptr is taken for a watcher, and the
\* watcher's callback starts unless it is NULL
Dispatch(e) ==
  /\ lpc = "dispatch"
  /\ e \in batch
  /\ batch' = batch \ {e}
  /\ \/ /\ e.ptr \in NoCallback
        /\ UNCHANGED <<lpc, cb>>
     \/ /\ e.ptr \notin NoCallback
        /\ lpc' = "callback"
        /\ cb' = [w |-> e.ptr, events |-> EpollToEvents(e.bits)]
  /\ UNCHANGED <<open, mem, regs, alive, wfd, wev, active, stale, tainted>>

CallbackReturn ==
  /\ lpc = "callback"
  /\ lpc' = "dispatch"
  /\ cb' = NoCb
  /\ UNCHANGED <<open, mem, regs, alive, wfd, wev, active, stale, tainted, batch>>

\* The for loop over the batch ends and epoll_loop_run returns
LoopReturn ==
  /\ lpc = "dispatch"
  /\ batch = {}
  /\ lpc' = "out"
  /\ UNCHANGED <<open, mem, regs, alive, wfd, wev, active, stale, tainted, batch, cb>>

AppStep ==
  \/ \E f \in Fds : OpenFd(f) \/ CloseFd(f)
  \/ \E w \in Watchers :
       \/ \E f \in Fds, events \in Masks, fault \in Faults \cup {"none"} :
            Create(w, f, events, fault)
       \/ \E fault \in (Faults \ {"list"}) \cup {"none"} : Start(w, fault)
       \/ Stop(w)
       \/ \E events \in Masks : Update(w, events)
       \/ Destroy(w)

LoopStep ==
  \/ \E F \in SUBSET Fds : \E bits \in [F -> SUBSET Conds] : EpollWait(F, bits)
  \/ \E e \in batch : Dispatch(e)
  \/ CallbackReturn
  \/ LoopReturn

EpollNext == AppStep \/ LoopStep

EpollSpec == EpollInit /\ [][EpollNext]_evars

-----------------------------------------------------------------------------
(* Properties *)

\* No connection goes unread: the descriptor of a watcher that is active,
\* and that the application has not closed, is in the kernel's set under that
\* very watcher with the mask last asked for, whatever stale watchers of a
\* recycled descriptor number do meanwhile (epoll_watcher_unregister, the
\* deferred teardown of OFFS-246).
ActiveIsMember ==
  \A w \in alive \ stale :
    active[w] =>
      mem[wfd[w]] = [ptr |-> w, events |-> EventsToEpoll(wev[w])]

\* The kernel never holds a pointer to a freed watcher, nor to one that was
\* stopped: failed registrations, evictions and teardowns included
\* (_epoll_evict_stale_registration: "nothing is DEL'ed on eviction").
NoDanglingEntry ==
  \A f \in Fds :
    mem[f] # NoEntry => /\ mem[f].ptr \in alive
                        /\ active[mem[f].ptr]
                        /\ wfd[mem[f].ptr] = f

\* Every member of the kernel's set has its record, and it is the only record
\* of its descriptor (epoll_watcher_register: "our own record is the fd's
\* only one"), so that its watcher's teardown finds it.
MemberHasRecord ==
  \A f \in Fds :
    mem[f] # NoEntry =>
      \E i \in DOMAIN regs :
        /\ regs[i] = [fd |-> f, watcher |-> mem[f].ptr]
        /\ \A j \in DOMAIN regs \ {i} : regs[j].fd # f

\* The watchers over epoll implement the contract of poll-dancer.h: recycled
\* descriptors, failing calls and epoll's own events (EPOLLRDHUP included)
\* never make a callback run for a watcher that is stopped or destroyed, for
\* nothing, or for events that it did not ask for.
Contract == INSTANCE WatcherContract WITH
  None    <- NoWatcher,
  Always  <- {"ERROR", "HANGUP"},
  status  <- [w \in Watchers |-> IF w \notin alive THEN "none"
                                ELSE IF active[w] THEN "watching" ELSE "stopped"],
  mask    <- wev,
  running <- cb

ImplementsContract == Contract!Spec

=============================================================================
