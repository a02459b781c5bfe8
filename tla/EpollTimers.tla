----------------------------- MODULE EpollTimers -----------------------------
(***************************************************************************)
(* Timers over the epoll backend: src/timer.c and the timerfd half of      *)
(* src/platform/epoll.c, composed with the watchers of module Epoll.  A    *)
(* timer owns a timerfd and an internal watcher of it, which compete with  *)
(* the application's own descriptors and watchers for descriptor numbers,  *)
(* registration records and places in a batch.                             *)
(*                                                                         *)
(* Durations are left out: an armed timerfd may expire at any later time.  *)
(***************************************************************************)
EXTENDS Epoll

CONSTANTS
  Timers,       \* pd_timer_t structures
  Repeating,    \* the timers with interval_ms > 0
  RestartFired  \* pd_timer_start may be called on a one-shot that has fired

ASSUME TimersAssumption ==
  /\ Repeating \subseteq Timers
  /\ RestartFired \in BOOLEAN

VARIABLES
  tlive,    \* allocated timers
  tw,       \* timer->watcher; its descriptor is the timerfd
  tactive,  \* the timers with timer->active set
  armed,    \* timerfds that will expire (again)
  expired,  \* timerfds with an unread expiration
  asked     \* history: timers started since they last were stopped or, if
            \* one-shot, last fired

tvars == <<tlive, tw, tactive, armed, expired, asked>>

vars == <<evars, tvars>>

(***************************************************************************)
(* Type invariant: a live timer has its watcher and an open timerfd, and   *)
(* nothing of a destroyed timer is left behind.                            *)
(***************************************************************************)
TimersTypeOK ==
  /\ EpollTypeOK
  /\ tlive \subseteq Timers
  /\ tw \in [Timers -> Watchers \cup {NoWatcher}]
  /\ tactive \subseteq tlive /\ asked \subseteq tlive
  /\ armed \subseteq tlive /\ expired \subseteq tlive
  /\ \A t \in tlive : tw[t] \in alive \ stale /\ wfd[tw[t]] \in open

TimersInit ==
  /\ EpollInit
  /\ tlive = {}
  /\ tw = [t \in Timers |-> NoWatcher]
  /\ tactive = {} /\ armed = {} /\ expired = {} /\ asked = {}

TimerFd(t) == wfd[tw[t]]

TimerOf(w) == {t \in tlive : tw[t] = w}

-----------------------------------------------------------------------------
(* The timer operations of the epoll backend, as values. *)

\* epoll_timer_create after timerfd_create: a watcher of the timerfd f, and
\* pd_watcher_stop on it, whose result is ignored
EpollTimerCreate(w, f, fault) ==
  LET o    == open \cup {f}
      new  == InitWatcher(o, regs, mem, w, f, {"READ"}, fault)
      stop == StopWatcher(o, new.regs, new.mem, w, f, TRUE)
  IN  IF new.ok
        THEN [ok |-> TRUE, regs |-> stop.regs, mem |-> stop.mem, started |-> ~stop.ok]
        ELSE [ok |-> FALSE, regs |-> new.regs, mem |-> new.mem, started |-> FALSE]

\* epoll_timer_start after timerfd_settime: pd_watcher_start
EpollTimerStart(t, fault) ==
  IF active[tw[t]]
    THEN Done(TRUE, regs, mem)
    ELSE Register(open, regs, mem, tw[t], TimerFd(t), wev[tw[t]], fault)

\* epoll_timer_stop after timerfd_settime: pd_watcher_stop
EpollTimerStop(t) == StopWatcher(open, regs, mem, tw[t], TimerFd(t), active[tw[t]])

\* epoll_timer_destroy: close(timerfd)
EpollTimerDestroy(o, m, f) == [open |-> o \ {f}, mem |-> [m EXCEPT ![f] = NoEntry]]

-----------------------------------------------------------------------------
(* pd_timer_create, _start, _stop and _destroy. *)

\* Mutant: pd_timer_create does not check what the backend returned
TimerCreateUnchecked(t, w, f, fault) ==
  LET new == EpollTimerCreate(w, f, fault)
  IN  /\ AppRuns
      /\ t \notin tlive
      /\ Fresh(w) /\ w \notin NoCallback
      /\ f \notin open
      /\ ~new.ok
      /\ regs' = new.regs
      /\ mem' = new.mem
      /\ tlive' = tlive \cup {t}
      /\ UNCHANGED <<open, alive, wfd, wev, active, tw>>
      /\ UNCHANGED <<stale, tainted, lpc, batch, cb, tactive, armed, expired, asked>>

\* pd_timer_create; when the watcher cannot be created the timerfd is closed
\* and the timer freed
TimerCreate(t, w, f, fault) ==
  LET new == EpollTimerCreate(w, f, fault)
  IN  /\ AppRuns
      /\ t \notin tlive
      /\ Fresh(w) /\ w \notin NoCallback
      /\ f \notin open
      /\ regs' = new.regs
      /\ mem' = new.mem
      /\ \/ /\ new.ok
            /\ open' = open \cup {f}
            /\ alive' = alive \cup {w}
            /\ wfd' = [wfd EXCEPT ![w] = f]
            /\ wev' = [wev EXCEPT ![w] = {"READ"}]
            /\ active' = [active EXCEPT ![w] = new.started]
            /\ tlive' = tlive \cup {t}
            /\ tw' = [tw EXCEPT ![t] = w]
         \/ /\ ~new.ok
            /\ UNCHANGED <<open, alive, wfd, wev, active, tlive, tw>>
      /\ UNCHANGED <<stale, tainted, lpc, batch, cb, tactive, armed, expired, asked>>

\* pd_timer_start of a timer that is active already: PD_OK and nothing else
TimerStartActive(t) ==
  /\ t \in tactive
  /\ MayTouch(tw[t])
  /\ RestartFired \/ t \in asked
  /\ asked' = asked \cup {t}
  /\ UNCHANGED <<evars, tlive, tw, tactive, armed, expired>>

\* Mutant: epoll_timer_start does not start the watcher
TimerStartNoWatcher(t, fault) ==
  /\ t \in tlive \ tactive
  /\ MayTouch(tw[t])
  /\ armed' = armed \cup {t}
  /\ expired' = expired \ {t}
  /\ tactive' = tactive \cup {t}
  /\ asked' = asked \cup {t}
  /\ UNCHANGED <<evars, tlive, tw>>

\* pd_timer_start: timerfd_settime arms the timerfd and discards an unread
\* expiration, then the watcher is started; the timer is not active if that
\* fails, and the timerfd stays armed
TimerStart(t, fault) ==
  LET w   == tw[t]
      reg == EpollTimerStart(t, fault)
  IN  /\ t \in tlive \ tactive
      /\ MayTouch(w)
      /\ armed' = armed \cup {t}
      /\ expired' = expired \ {t}
      /\ regs' = reg.regs
      /\ mem' = reg.mem
      /\ active' = [active EXCEPT ![w] = reg.ok]
      /\ tactive' = IF reg.ok THEN tactive \cup {t} ELSE tactive
      /\ asked' = IF reg.ok THEN asked \cup {t} ELSE asked
      /\ UNCHANGED <<open, alive, wfd, wev, stale, tainted, lpc, batch, cb, tlive, tw>>

\* Mutant: pd_timer_stop clears the flag and does not call the backend
TimerStopFlagOnly(t) ==
  /\ t \in tactive
  /\ MayTouch(tw[t])
  /\ asked' = asked \ {t}
  /\ tactive' = tactive \ {t}
  /\ UNCHANGED <<evars, tlive, tw, armed, expired>>

\* pd_timer_stop: disarm, then stop the watcher; the timer is active again if
\* that fails
TimerStop(t) ==
  LET w     == tw[t]
      unreg == EpollTimerStop(t)
  IN  /\ t \in tactive
      /\ MayTouch(w)
      /\ armed' = armed \ {t}
      /\ expired' = expired \ {t}
      /\ asked' = asked \ {t}
      /\ regs' = unreg.regs
      /\ mem' = unreg.mem
      /\ active' = [active EXCEPT ![w] = active[w] /\ ~unreg.ok]
      /\ tactive' = IF unreg.ok THEN tactive \ {t} ELSE tactive
      /\ UNCHANGED <<open, alive, wfd, wev, stale, tainted, lpc, batch, cb, tlive, tw>>

\* pd_timer_destroy: pd_timer_stop if active, pd_watcher_destroy on the
\* internal watcher, and only then close(timerfd) in epoll_timer_destroy
TimerDestroy(t) ==
  LET w       == tw[t]
      f       == wfd[w]
      stops   == t \in tactive /\ active[w]
      stopped == StopWatcher(open, regs, mem, w, f, stops)
      gone    == DestroyWatcher(open, stopped.regs, stopped.mem, w, f,
                                active[w] /\ ~(stops /\ stopped.ok))
      closed  == EpollTimerDestroy(open, gone.mem, f)
  IN  /\ t \in tlive
      /\ MayTouch(w)
      /\ regs' = gone.regs
      /\ mem' = closed.mem
      /\ open' = closed.open
      /\ alive' = alive \ {w}
      /\ stale' = stale \ {w}
      /\ tainted' = tainted \cup ({w} \cap stale)
      /\ tlive' = tlive \ {t}
      /\ tactive' = tactive \ {t}
      /\ armed' = armed \ {t}
      /\ expired' = expired \ {t}
      /\ asked' = asked \ {t}
      /\ tw' = [tw EXCEPT ![t] = NoWatcher]
      /\ Forget(w)
      /\ UNCHANGED <<lpc, batch, cb>>

\* The kernel: an armed timerfd expires, and stays armed if it repeats.
Expire(t) ==
  /\ t \in armed
  /\ expired' = expired \cup {t}
  /\ armed' = IF t \in Repeating THEN armed ELSE armed \ {t}
  /\ UNCHANGED <<evars, tlive, tw, tactive, asked>>

-----------------------------------------------------------------------------
(* The steps of Epoll in the presence of timers. *)

\* The application does not know the timerfds and their watchers, and leaves
\* them alone.
AppStepT ==
  /\ AppStep
  /\ \A t \in tlive : LET w == tw[t]
                      IN  /\ wfd[w] \in open' /\ w \in alive'
                          /\ active'[w] = active[w] /\ wev'[w] = wev[w]
  /\ UNCHANGED tvars

\* A timerfd is readable exactly when it has an unread expiration.
EpollWaitT(F, bits) ==
  /\ EpollWait(F, bits)
  /\ \A t \in tlive : TimerFd(t) \in F => t \in expired /\ bits[TimerFd(t)] = {"IN"}
  /\ UNCHANGED tvars

\* timerfd_callback reads the timerfd, whatever the read returns, and calls
\* the timer's callback
DispatchT(e) ==
  /\ Dispatch(e)
  /\ expired' = expired \ TimerOf(e.ptr)
  /\ asked' = asked \ (TimerOf(e.ptr) \ Repeating)
  /\ UNCHANGED <<tlive, tw, tactive, armed>>

WaitStep(f) ==
  \E F \in SUBSET Fds : \E bits \in [F -> SUBSET Conds] : f \in F /\ EpollWaitT(F, bits)

Next ==
  \/ AppStepT
  \/ \E f \in Fds : WaitStep(f)
  \/ \E e \in batch : DispatchT(e)
  \/ CallbackReturn /\ UNCHANGED tvars
  \/ LoopReturn /\ UNCHANGED tvars
  \/ \E t \in Timers :
       \/ \E w \in Watchers, f \in Fds, fault \in Faults \cup {"none"} :
            TimerCreate(t, w, f, fault)
       \/ TimerStartActive(t)
       \/ \E fault \in (Faults \ {"list"}) \cup {"none"} : TimerStart(t, fault)
       \/ TimerStop(t)
       \/ TimerDestroy(t)
       \/ Expire(t)

Spec == TimersInit /\ [][Next]_vars

(***************************************************************************)
(* Fairness: time passes, the application keeps running the loop, its      *)
(* callbacks return, and epoll_wait serves ready descriptors round robin,  *)
(* so a readable timerfd is not passed over for ever.                      *)
(***************************************************************************)
Fairness ==
  /\ \A t \in Timers :
       /\ WF_vars(Expire(t))
       /\ SF_vars(\E f \in Fds : t \in tlive /\ f = TimerFd(t) /\ WaitStep(f))
  /\ WF_vars(\E e \in batch : DispatchT(e))
  /\ SF_vars(CallbackReturn /\ UNCHANGED tvars)
  /\ WF_vars(LoopReturn /\ UNCHANGED tvars)

FairSpec == Spec /\ Fairness

-----------------------------------------------------------------------------
(* Properties *)

\* A started timer is never silently dead: from pd_timer_start until it fires
\* (one-shot) or is stopped, its timerfd is armed or expired and its watcher
\* is in the kernel's set.
StartedIsPending ==
  \A t \in asked :
    /\ t \in tactive
    /\ t \in armed \cup expired
    /\ mem[TimerFd(t)] = [ptr |-> tw[t], events |-> {"IN"}]

\* A timer's callback runs only between pd_timer_start and pd_timer_stop, and
\* only for an expiration of its own (poll-dancer.h, pd_timer_stop: "The
\* timer stops firing but remains allocated").
FiresWhenDue ==
  [][\A e \in batch \ batch' : TimerOf(e.ptr) \subseteq asked \cap expired]_vars

\* A one-shot timer that was started fires, unless it is stopped or
\* destroyed, however busy the application's own descriptors are.
OneShotFires == \A t \in Timers \ Repeating : (t \in asked) ~> (t \notin asked)

=============================================================================
