-------------------------- MODULE EpollTimersProofs --------------------------
(***************************************************************************)
(* Proofs about EpollTimers for any number of timers, watchers and         *)
(* descriptors, under the rules of EpollProofs.  The invariant EInv of the *)
(* registrations carries over: pd_timer_start and pd_timer_stop are        *)
(* pd_watcher_start and pd_watcher_stop of the timer's own watcher.  A     *)
(* one-shot timer is stopped before it is started again (RestartFired says *)
(* otherwise).                                                             *)
(***************************************************************************)
EXTENDS EpollTimers, EpollProofs

-----------------------------------------------------------------------------
(* The inductive invariants *)

\* A live timer has a watcher of its own, which is started exactly when the
\* timer is active.
Owned(t) ==
  /\ tw[t] \in alive \ stale
  /\ wfd[tw[t]] \in open
  /\ wev[tw[t]] = {"READ"}
  /\ active[tw[t]] <=> t \in tactive

Timed ==
  /\ tlive \subseteq Timers
  /\ tw \in [Timers -> Watchers \cup {NoWatcher}]
  /\ tactive \subseteq tlive /\ asked \subseteq tactive
  /\ armed \subseteq tlive /\ expired \subseteq tlive
  /\ \A t \in tlive : Owned(t)
  /\ \A t, u \in tlive : tw[t] = tw[u] => t = u

\* A timer that was asked to fire will, and a repeating one again and again.
Pending == \A t \in asked : t \in armed \/ (t \in expired /\ t \notin Repeating)

TInv == EInv /\ Timed /\ Pending

\* What is waiting in the batch for a timer is its last expiration, which it
\* was asked for.
Due ==
  /\ tactive \cap (armed \cup expired) \subseteq asked
  /\ armed \cap expired \subseteq Repeating
  /\ \A e \in batch : TimerOf(e.ptr) \subseteq asked \cap expired
  /\ \A d, e \in batch : d.ptr = e.ptr => d = e

-----------------------------------------------------------------------------
(* The registrations under the timers *)

(***************************************************************************)
(* pd_timer_start and pd_timer_stop start and stop the timer's watcher;    *)
(* stopping does not fail, since the timerfd is open and in the set.       *)
(***************************************************************************)
LEMMA TimerStartStep ==
  ASSUME Rules, TInv, NEW t \in Timers, NEW fault, TimerStart(t, fault)
  PROVE  EInv' /\ Timed' /\ Pending'
<1> DEFINE w == tw[t]
           n == Register(open, regs, mem, w, wfd[w], wev[w], fault)
<1>1. /\ t \in tlive /\ t \notin tactive
      /\ w \in alive \ stale /\ ~active[w] /\ w \in Watchers
  BY DEF TimerStart, TInv, Timed, Owned, EInv, EpollTypeOK
<1>2. /\ regs' = n.regs /\ mem' = n.mem
      /\ active' = [active EXCEPT ![w] = n.ok]
      /\ UNCHANGED <<open, alive, wfd, wev, stale, tainted, lpc, batch, cb>>
      /\ armed' = armed \cup {t}
      /\ expired' = expired \ {t}
      /\ tactive' = IF n.ok THEN tactive \cup {t} ELSE tactive
      /\ asked' = IF n.ok THEN asked \cup {t} ELSE asked
      /\ UNCHANGED <<tlive, tw>>
      /\ MayTouch(w)
  BY <1>1 DEF TimerStart, EpollTimerStart, TimerFd
<1>3. Start(w, fault)
  BY <1>1, <1>2 DEF Start, Usable
<1>4. EInv'
  BY <1>1, <1>3, StartStep DEF TInv
<1>5. Registering(n, open, regs, mem, w, wfd[w], wev[w])
  <2>1. \A x \in Recs(regs) : x.watcher # w
    BY <1>1 DEF TInv, EInv, Recorded
  <2>2. regs \in Seq(Records) /\ Keyed(regs) /\ wfd[w] \in Fds
    BY <1>1 DEF TInv, EInv, EpollTypeOK, Recorded
  <2> QED
    BY <1>1, <2>1, <2>2, Registered
<1>6. n.ok \in BOOLEAN
  BY <1>5 DEF Registering
<1> HIDE DEF n
<1>7. active'[w] = n.ok /\ \A v \in Watchers \ {w} : active'[v] = active[v]
  BY <1>1, <1>2 DEF TInv, EInv, EpollTypeOK
<1>8. ASSUME NEW u \in tlive PROVE Owned(u)'
  <2>1. Owned(u) /\ tw[u] \in Watchers
    BY DEF TInv, Timed, Owned, EInv, EpollTypeOK
  <2>2. CASE u = t
    BY <1>1, <1>2, <1>6, <1>7, <2>1, <2>2 DEF Owned
  <2>3. CASE u # t
    <3>1. tw[u] # w
      BY <1>1, <2>3 DEF TInv, Timed
    <3>2. u \in tactive' <=> u \in tactive
      BY <1>2, <2>3
    <3> QED
      BY <1>2, <1>7, <2>1, <3>1, <3>2 DEF Owned
  <2> QED
    BY <2>2, <2>3
<1>9. Timed'
  BY <1>1, <1>2, <1>6, <1>8 DEF TInv, Timed
<1>10. Pending'
  BY <1>2, <1>6 DEF TInv, Pending
<1> QED
  BY <1>4, <1>9, <1>10

LEMMA TimerStopStep ==
  ASSUME TInv, NEW t \in Timers, TimerStop(t)
  PROVE  EInv' /\ Timed' /\ Pending'
<1> DEFINE w == tw[t]
           n == Unregister(open, regs, mem, w, wfd[w])
<1>1. /\ t \in tlive /\ t \in tactive
      /\ w \in alive \ stale /\ active[w] = TRUE /\ w \in Watchers
  BY DEF TimerStop, TInv, Timed, Owned, EInv, EpollTypeOK
<1>2. n.ok = TRUE
  <2>1. n.ok \in BOOLEAN /\ (~n.ok => w \in stale)
    BY <1>1, UnregisterStep DEF TInv
  <2> QED
    BY <1>1, <2>1
<1>3. EpollTimerStop(t) = n /\ StopWatcher(open, regs, mem, w, wfd[w], TRUE) = n
  BY <1>1 DEF EpollTimerStop, StopWatcher, TimerFd
<1> HIDE DEF n
<1>4. /\ regs' = n.regs /\ mem' = n.mem
      /\ active' = [active EXCEPT ![w] = FALSE]
      /\ UNCHANGED <<open, alive, wfd, wev, stale, tainted, lpc, batch, cb>>
      /\ armed' = armed \ {t}
      /\ expired' = expired \ {t}
      /\ tactive' = tactive \ {t}
      /\ asked' = asked \ {t}
      /\ UNCHANGED <<tlive, tw>>
      /\ MayTouch(w)
  BY <1>1, <1>2, <1>3 DEF TimerStop
<1>5. Stop(w)
  BY <1>1, <1>2, <1>3, <1>4 DEF Stop
<1>6. EInv'
  BY <1>1, <1>5, StopStep DEF TInv
<1>7. active'[w] = FALSE /\ \A v \in Watchers \ {w} : active'[v] = active[v]
  BY <1>1, <1>4 DEF TInv, EInv, EpollTypeOK
<1>8. ASSUME NEW u \in tlive PROVE Owned(u)'
  <2>1. Owned(u) /\ tw[u] \in Watchers
    BY DEF TInv, Timed, Owned, EInv, EpollTypeOK
  <2>2. CASE u = t
    BY <1>1, <1>4, <1>7, <2>1, <2>2 DEF Owned
  <2>3. CASE u # t
    <3>1. tw[u] # w
      BY <1>1, <2>3 DEF TInv, Timed
    <3> QED
      BY <1>4, <1>7, <2>1, <2>3, <3>1 DEF Owned
  <2> QED
    BY <2>2, <2>3
<1>9. Timed'
  BY <1>1, <1>4, <1>8 DEF TInv, Timed
<1>10. Pending'
  BY <1>4 DEF TInv, Pending
<1> QED
  BY <1>6, <1>9, <1>10


(***************************************************************************)
(* pd_timer_destroy unregisters the watcher up to three times, with the    *)
(* effect of one, and closes the timerfd only then: no record and no       *)
(* member of the set outlives the timer.                                   *)
(***************************************************************************)
LEMMA TimerDestroyStep ==
  ASSUME TInv, NEW t \in Timers, TimerDestroy(t)
  PROVE  EInv' /\ Timed' /\ Pending'
<1> DEFINE w == tw[t]
           f == wfd[w]
           n == Unregister(open, regs, mem, w, f)
<1>1. /\ t \in tlive /\ w \in alive \ stale /\ w \in Watchers
      /\ f \in open /\ f \in Fds /\ active[w] \in BOOLEAN
      /\ active[w] <=> t \in tactive
      /\ regs \in Seq(Records) /\ Keyed(regs) /\ AnyFd \in Fds
  BY EpollAssumption
     DEF TimerDestroy, TInv, Timed, Owned, EInv, EpollTypeOK, Recorded, AnyFd
<1>2. regs' = n.regs /\ mem' = [n.mem EXCEPT ![f] = NoEntry] /\ open' = open \ {f}
  <2> DEFINE stops   == t \in tactive /\ active[w]
             stopped == StopWatcher(open, regs, mem, w, f, stops)
             last    == active[w] /\ ~(stops /\ stopped.ok)
             gone    == DestroyWatcher(open, stopped.regs, stopped.mem, w, f, last)
             again   == Unregister(open, n.regs, n.mem, w, f)
  <2>1. /\ regs' = gone.regs
        /\ mem' = [gone.mem EXCEPT ![f] = NoEntry]
        /\ open' = open \ {f}
    BY DEF TimerDestroy, EpollTimerDestroy
  <2>2. n.regs \in Seq(Records) /\ Keyed(n.regs)
    BY <1>1, UnregisterStep DEF TInv
  <2>3. again.regs = n.regs /\ again.mem = n.mem
    BY <1>1, UnregisteredAgain
  <2>4. CASE stops
    <3>1. stopped = n
      BY <2>4 DEF StopWatcher
    <3> HIDE DEF stopped, n, last
    <3>2. gone.regs = again.regs /\ gone.mem = again.mem
      BY <2>2, <3>1, Destroyed
    <3> QED
      BY <2>1, <2>3, <3>2
  <2>5. CASE ~stops
    <3>1. stopped.regs = regs /\ stopped.mem = mem
      BY <2>5 DEF StopWatcher, Done
    <3> HIDE DEF stopped, last
    <3>2. gone.regs = n.regs /\ gone.mem = n.mem
      BY <1>1, <3>1, Destroyed
    <3> QED
      BY <2>1, <3>2
  <2> QED
    BY <2>4, <2>5
<1>3. /\ alive' = alive \ {w} /\ stale' = stale /\ tainted' = tainted
      /\ wfd' = [wfd EXCEPT ![w] = AnyFd]
      /\ wev' = [wev EXCEPT ![w] = {}]
      /\ active' = [active EXCEPT ![w] = FALSE]
      /\ UNCHANGED <<lpc, batch, cb>>
      /\ tlive' = tlive \ {t} /\ tactive' = tactive \ {t} /\ armed' = armed \ {t}
      /\ expired' = expired \ {t} /\ asked' = asked \ {t}
      /\ tw' = [tw EXCEPT ![t] = NoWatcher]
  BY <1>1 DEF TimerDestroy, Forget
<1>4. /\ n.regs \in Seq(Records) /\ Keyed(n.regs)
      /\ Recs(n.regs) \subseteq Recs(regs)
      /\ \A x \in Recs(regs) : x.watcher # w => x \in Recs(n.regs)
      /\ \A x \in Recs(n.regs) : x.watcher # w
      /\ n.mem \in [Fds -> Entries \cup {NoEntry}]
      /\ \A g \in Fds : n.mem[g] # NoEntry => n.mem[g] = mem[g] /\ mem[g].ptr # w
      /\ \A v \in alive \ stale : active[v] /\ v # w => n.mem[wfd[v]] = mem[wfd[v]]
  <2>1. n.ok \in BOOLEAN /\ (~n.ok => w \in stale)
    BY <1>1, UnregisterStep DEF TInv
  <2>2. n.ok
    BY <1>1, <2>1
  <2> QED
    BY <1>1, <2>2, UnregisterStep DEF TInv
<1> HIDE DEF n
<1>5. /\ mem' \in [Fds -> Entries \cup {NoEntry}]
      /\ \A g \in Fds : g # f => mem'[g] = n.mem[g]
      /\ mem'[f] = NoEntry
  BY <1>1, <1>2, <1>4
<1>6. \A v \in Watchers \ {w} :
        active'[v] = active[v] /\ wfd'[v] = wfd[v] /\ wev'[v] = wev[v]
  BY <1>3 DEF TInv, EInv, EpollTypeOK
<1>7. \A v \in alive \ stale : v # w => v \in Watchers /\ wfd[v] # f /\ wfd[v] \in open
  BY <1>1 DEF TInv, EInv, EpollTypeOK, OneWatcher
<1>8. EpollTypeOK'
  <2>1. \A g \in Fds \ open' : mem'[g] = NoEntry
    BY <1>2, <1>4, <1>5 DEF TInv, EInv, EpollTypeOK
  <2> QED
    BY <1>1, <1>2, <1>3, <1>4, <1>5, <2>1 DEF TInv, EInv, EpollTypeOK
<1>9. Recorded'
  BY <1>2, <1>3, <1>4, <1>6 DEF TInv, EInv, EpollTypeOK, Recorded
<1>10. Membership'
  <2> SUFFICES ASSUME NEW g \in Fds, mem'[g] # NoEntry PROVE Member(g, mem[g])'
    BY DEF Membership
  <2>1. mem'[g] = mem[g] /\ mem[g].ptr # w /\ Member(g, mem[g])
    BY <1>4, <1>5 DEF TInv, EInv, Membership
  <2> QED
    BY <1>2, <1>3, <1>4, <1>6, <2>1 DEF Member, TInv, EInv, EpollTypeOK
<1>11. OneWatcher'
  BY <1>2, <1>3, <1>6, <1>7 DEF TInv, EInv, OneWatcher
<1>12. ActiveIsMember'
  <2> SUFFICES ASSUME NEW v \in alive' \ stale', active'[v]
               PROVE  mem'[wfd'[v]] = [ptr |-> v, events |-> EventsToEpoll(wev'[v])]
    BY DEF ActiveIsMember
  <2>1. v # w /\ v \in alive \ stale
    BY <1>3
  <2>2. v \in Watchers /\ wfd[v] # f /\ wfd[v] \in Fds
    BY <1>7, <2>1 DEF TInv, EInv, EpollTypeOK
  <2>3. active[v] /\ wfd'[v] = wfd[v] /\ wev'[v] = wev[v]
    BY <1>6, <2>1, <2>2
  <2>4. mem'[wfd[v]] = mem[wfd[v]]
    BY <1>4, <1>5, <2>1, <2>2, <2>3
  <2> QED
    BY <2>1, <2>3, <2>4 DEF TInv, EInv, ActiveIsMember
<1>13. Timed'
  <2>1. ASSUME NEW u \in tlive' PROVE Owned(u)' /\ tw'[u] = tw[u]
    <3>1. u \in tlive /\ u # t /\ u \in Timers
      BY <1>3, <2>1 DEF TInv, Timed
    <3>2. Owned(u) /\ tw[u] \in Watchers /\ tw[u] # w /\ tw'[u] = tw[u]
      BY <1>1, <1>3, <3>1 DEF TInv, Timed, Owned, EInv, EpollTypeOK
    <3>3. u \in tactive' <=> u \in tactive
      BY <1>3, <3>1
    <3> QED
      BY <1>2, <1>3, <1>6, <1>7, <3>2, <3>3 DEF Owned
  <2>2. tw' \in [Timers -> Watchers \cup {NoWatcher}]
    BY <1>3 DEF TInv, Timed
  <2>3. tlive' \subseteq tlive /\ tlive' \subseteq Timers
    BY <1>3 DEF TInv, Timed
  <2>4. \A u, v \in tlive' : tw'[u] = tw'[v] => u = v
    BY <2>1, <2>3 DEF TInv, Timed
  <2>5. /\ tactive' \subseteq tlive' /\ asked' \subseteq tactive'
        /\ armed' \subseteq tlive' /\ expired' \subseteq tlive'
    BY <1>3 DEF TInv, Timed
  <2> QED
    BY <2>1, <2>2, <2>3, <2>4, <2>5 DEF Timed
<1>14. Pending'
  BY <1>3 DEF TInv, Pending
<1> QED
  BY <1>8, <1>9, <1>10, <1>11, <1>12, <1>13, <1>14 DEF EInv

(***************************************************************************)
(* pd_timer_create registers the new watcher and stops it at once: what    *)
(* is left is a watcher of the timerfd that is not active, or nothing.     *)
(***************************************************************************)
LEMMA TimerCreateStep ==
  ASSUME Rules, TInv, NEW t \in Timers, NEW w \in Watchers, NEW f \in Fds,
         NEW fault, TimerCreate(t, w, f, fault)
  PROVE  EInv' /\ Timed' /\ Pending'
<1> DEFINE o     == open \cup {f}
           n     == InitWatcher(o, regs, mem, w, f, {"READ"}, fault)
           stop  == Unregister(o, n.regs, n.mem, w, f)
           entry == [ptr |-> w, events |-> EventsToEpoll({"READ"})]
<1>1. /\ w \notin alive /\ w \notin tainted /\ w \notin stale
      /\ t \notin tlive /\ f \notin open
      /\ \A v \in alive \ stale : v # w /\ wfd[v] # f
      /\ mem[f] = NoEntry
      /\ mem \in [Fds -> Entries \cup {NoEntry}]
      /\ regs \in Seq(Records) /\ Keyed(regs)
      /\ {"READ"} \in SUBSET PdEvents
  BY DEF Rules, TimerCreate, Fresh, TInv, EInv, EpollTypeOK, Recorded, OneWatcher,
         PdEvents
<1>2. \A x \in Recs(regs) : x.watcher # w
  BY <1>1 DEF TInv, EInv, Recorded
<1>3. Registering(n, o, regs, mem, w, f, {"READ"})
  BY <1>1, <1>2, Initialised
<1>4. Unregistering(stop, o, n.regs, n.mem, w, f)
  BY <1>3, Unregistered DEF Registering
<1>5. /\ n.ok => /\ regs' = stop.regs /\ mem' = stop.mem
                 /\ open' = o
                 /\ alive' = alive \cup {w}
                 /\ wfd' = [wfd EXCEPT ![w] = f]
                 /\ wev' = [wev EXCEPT ![w] = {"READ"}]
                 /\ active' = [active EXCEPT ![w] = ~stop.ok]
                 /\ tlive' = tlive \cup {t}
                 /\ tw' = [tw EXCEPT ![t] = w]
      /\ ~n.ok => /\ regs' = n.regs /\ mem' = n.mem
                  /\ UNCHANGED <<open, alive, wfd, wev, active, tlive, tw>>
      /\ UNCHANGED <<stale, tainted, lpc, batch, cb, tactive, armed, expired, asked>>
  BY DEF TimerCreate, EpollTimerCreate, StopWatcher
<1> HIDE DEF n, stop, entry
<1>6. Pending'
  BY <1>5 DEF TInv, Pending
<1>7. CASE ~n.ok
  <2>1. Registering(n, open, regs, mem, w, f, {"READ"})
    BY <1>3, <1>7 DEF Registering
  <2>2. /\ mem' \in [Fds -> Entries \cup {NoEntry}]
        /\ regs' \in Seq(Records)
        /\ \A g \in Fds \ open' : mem'[g] = NoEntry
        /\ Recorded' /\ Membership' /\ OneWatcher' /\ ActiveIsMember'
    BY <1>1, <1>2, <1>5, <1>7, <2>1, RegisterStep DEF TInv
  <2>3. EpollTypeOK'
    BY <1>5, <1>7, <2>2 DEF TInv, EInv, EpollTypeOK
  <2>4. Timed'
    BY <1>5, <1>7 DEF TInv, Timed, Owned
  <2> QED
    BY <1>6, <2>2, <2>3, <2>4 DEF EInv
<1>8. CASE n.ok
  <2>1. /\ n.mem = [mem EXCEPT ![f] = entry]
        /\ Recs(n.regs) = {x \in Recs(regs) : x.fd # f} \cup {[fd |-> f, watcher |-> w]}
    BY <1>3, <1>8 DEF Registering, entry
  <2>2. entry # NoEntry
    BY <1>1, BitsOfEvents, NoEntryAssumption DEF Entries, entry
  <2>3. n.mem[f] # NoEntry
    BY <1>1, <2>1, <2>2
  <2>4. /\ stop.ok
        /\ Recs(stop.regs) = {x \in Recs(n.regs) : x.watcher # w}
        /\ stop.mem = [n.mem EXCEPT ![f] = NoEntry]
        /\ stop.regs \in Seq(Records) /\ Keyed(stop.regs)
    <3> DEFINE new == [fd |-> f, watcher |-> w]
    <3>0. new \in Recs(n.regs)
      BY <2>1
    <3>1. \E x \in Recs(n.regs) : x.watcher = w
      BY <3>0
    <3> QED
      BY <1>4, <2>3, <3>1 DEF Unregistering
  <2>5. /\ mem' = mem
        /\ Recs(regs') = {x \in Recs(regs) : x.fd # f}
        /\ regs' \in Seq(Records) /\ Keyed(regs')
    BY <1>1, <1>2, <1>5, <1>8, <2>1, <2>4
  <2>6. /\ open' = open \cup {f} /\ alive' = alive \cup {w}
        /\ wfd' = [wfd EXCEPT ![w] = f]
        /\ wev' = [wev EXCEPT ![w] = {"READ"}]
        /\ active' = [active EXCEPT ![w] = FALSE]
        /\ tlive' = tlive \cup {t} /\ tw' = [tw EXCEPT ![t] = w]
    BY <1>5, <1>8, <2>4
  <2>7. wfd'[w] = f /\ wev'[w] = {"READ"} /\ active'[w] = FALSE /\ tw'[t] = w
    BY <2>6 DEF TInv, EInv, EpollTypeOK, Timed
  <2>8. \A v \in Watchers \ {w} :
          wfd'[v] = wfd[v] /\ wev'[v] = wev[v] /\ active'[v] = active[v]
    BY <2>6 DEF TInv, EInv, EpollTypeOK
  <2>9. EpollTypeOK'
    BY <1>1, <1>5, <2>5, <2>6 DEF TInv, EInv, EpollTypeOK
  <2>10. Recorded'
    BY <1>2, <1>5, <2>5, <2>6, <2>8 DEF TInv, EInv, EpollTypeOK, Recorded
  <2>11. Membership'
    <3> SUFFICES ASSUME NEW g \in Fds, mem[g] # NoEntry PROVE Member(g, mem[g])'
      BY <2>5 DEF Membership
    <3>1. Member(g, mem[g]) /\ g # f
      BY <1>1 DEF TInv, EInv, Membership
    <3>2. mem[g].ptr # w /\ mem[g].ptr \in Watchers
      BY <1>1, <3>1 DEF Member, TInv, EInv, EpollTypeOK
    <3> QED
      BY <1>5, <2>5, <2>6, <2>8, <3>1, <3>2 DEF Member
  <2>12. OneWatcher'
    BY <1>1, <1>5, <2>6, <2>7, <2>8 DEF TInv, EInv, EpollTypeOK, OneWatcher
  <2>13. ActiveIsMember'
    BY <1>1, <1>5, <2>5, <2>6, <2>7, <2>8 DEF TInv, EInv, EpollTypeOK, ActiveIsMember
  <2>14. ASSUME NEW u \in tlive' PROVE Owned(u)' /\ (u # t => tw'[u] = tw[u] /\ tw[u] # w)
    <3>1. CASE u = t
      <4>1. t \notin tactive
        BY <1>1 DEF TInv, Timed
      <4> QED
        BY <1>1, <1>5, <2>6, <2>7, <3>1, <4>1 DEF Owned
    <3>2. CASE u # t
      <4>1. u \in tlive /\ u \in Timers /\ Owned(u)
        BY <2>6, <2>14, <3>2 DEF TInv, Timed
      <4>2. tw'[u] = tw[u] /\ tw[u] # w /\ tw[u] \in Watchers
        BY <1>1, <2>6, <3>2, <4>1 DEF TInv, Timed, Owned, EInv, EpollTypeOK
      <4> QED
        BY <1>5, <2>6, <2>8, <4>1, <4>2 DEF Owned
    <3> QED
      BY <3>1, <3>2
  <2>15. \A u, v \in tlive' : tw'[u] = tw'[v] => u = v
    BY <2>6, <2>7, <2>14 DEF TInv, Timed
  <2>16. Timed'
    BY <1>5, <2>6, <2>14, <2>15 DEF TInv, Timed
  <2> QED
    BY <1>6, <2>9, <2>10, <2>11, <2>12, <2>13, <2>16 DEF EInv
<1>9. n.ok \in BOOLEAN
  BY <1>3 DEF Registering
<1> QED
  BY <1>7, <1>8, <1>9


(***************************************************************************)
(* The application leaves the timerfds and their watchers alone, whatever  *)
(* it does with its own, and epoll_loop_run changes neither.               *)
(***************************************************************************)
LEMMA OthersStep ==
  ASSUME Rules, TInv, AppStepT \/ LoopStep, UNCHANGED <<tlive, tw, tactive>>
  PROVE  EInv' /\ \A t \in tlive : Owned(t)'
<1>1. EInv'
  BY EInvStep DEF TInv, AppStepT, EpollNext
<1>2. CASE LoopStep
  <2>1. UNCHANGED <<open, alive, wfd, wev, active, stale>>
    BY <1>2 DEF LoopStep, EpollWait, Dispatch, CallbackReturn, LoopReturn
  <2> QED
    BY <1>1, <2>1 DEF TInv, Timed, Owned
<1>3. CASE AppStepT
  <2> SUFFICES ASSUME NEW t \in tlive PROVE Owned(t)'
    BY <1>1
  <2> DEFINE w == tw[t]
  <2>1. /\ w \in alive \ stale /\ wfd[w] \in open /\ w \in Watchers
        /\ wev[w] = {"READ"} /\ (active[w] <=> t \in tactive)
    BY DEF TInv, Timed, Owned, EInv, EpollTypeOK
  <2>2. /\ wfd[w] \in open' /\ w \in alive'
        /\ active'[w] = active[w] /\ wev'[w] = wev[w]
        /\ AppStep
    BY <1>3 DEF AppStepT
  <2> HIDE DEF w
  <2>3. wfd'[w] = wfd[w] /\ w \notin stale'
    <3>1. ASSUME NEW f \in Fds, OpenFd(f) \/ CloseFd(f)
          PROVE  wfd'[w] = wfd[w] /\ w \notin stale'
      BY <2>1, <2>2, <3>1 DEF OpenFd, CloseFd
    <3>2. ASSUME NEW v \in Watchers, NEW f \in Fds, NEW ev \in Masks, NEW fault,
                 Create(v, f, ev, fault)
          PROVE  wfd'[w] = wfd[w] /\ w \notin stale'
      BY <2>1, <3>2 DEF Create, Fresh, TInv, EInv, EpollTypeOK
    <3>3. ASSUME NEW v \in Watchers,
                 (\E fault : Start(v, fault)) \/ Stop(v) \/ (\E ev \in Masks : Update(v, ev))
          PROVE  wfd'[w] = wfd[w] /\ w \notin stale'
      BY <2>1, <3>3 DEF Start, Stop, Update
    <3>4. ASSUME NEW v \in Watchers, Destroy(v)
          PROVE  wfd'[w] = wfd[w] /\ w \notin stale'
      BY <2>1, <2>2, <3>4 DEF Destroy, Forget, TInv, EInv, EpollTypeOK
    <3> QED
      BY <2>2, <3>1, <3>2, <3>3, <3>4 DEF AppStep
  <2> QED
    BY <2>1, <2>2, <2>3 DEF Owned, w
<1> QED
  BY <1>2, <1>3

(***************************************************************************)
(* The invariant is inductive, and so holds in every reachable state.      *)
(***************************************************************************)
LEMMA TInvStep ==
  ASSUME Rules, ~RestartFired, TInv, [Next]_vars
  PROVE  TInv'
<1>1. CASE AppStepT
  <2>1. UNCHANGED tvars
    BY <1>1 DEF AppStepT
  <2>2. EInv' /\ \A t \in tlive : Owned(t)'
    BY <1>1, <2>1, OthersStep DEF tvars
  <2> QED
    BY <2>1, <2>2 DEF TInv, Timed, Pending, tvars
<1>2. CASE LoopStep /\ UNCHANGED tvars
  <2>1. EInv' /\ \A t \in tlive : Owned(t)'
    BY <1>2, OthersStep DEF tvars
  <2> QED
    BY <1>2, <2>1 DEF TInv, Timed, Pending, tvars
<1>3. ASSUME NEW e \in batch, DispatchT(e) PROVE TInv'
  <2>1. /\ expired' = expired \ TimerOf(e.ptr)
        /\ asked' = asked \ (TimerOf(e.ptr) \ Repeating)
        /\ UNCHANGED <<tlive, tw, tactive, armed>>
        /\ LoopStep
    BY <1>3 DEF DispatchT, LoopStep
  <2>2. EInv' /\ \A t \in tlive : Owned(t)'
    BY <2>1, OthersStep
  <2> QED
    BY <2>1, <2>2 DEF TInv, Timed, Pending
<1>4. ASSUME NEW t \in Timers, TimerStartActive(t) \/ Expire(t) PROVE TInv'
  <2>1. UNCHANGED <<evars, tlive, tw, tactive>>
    BY <1>4 DEF TimerStartActive, Expire
  <2>2. EInv'
    BY <2>1, EInvStep DEF TInv
  <2>3. \A u \in tlive : Owned(u)'
    BY <2>1 DEF TInv, Timed, Owned, evars
  <2>4. asked' \subseteq asked /\ armed' \subseteq armed /\ expired' \subseteq expired \cup armed
    BY <1>4 DEF TimerStartActive, Expire
  <2>5. Pending'
    BY <1>4 DEF TimerStartActive, Expire, TInv, Pending
  <2> QED
    BY <2>1, <2>2, <2>3, <2>4, <2>5 DEF TInv, Timed
<1>5. CASE UNCHANGED vars
  <2>1. UNCHANGED evars /\ UNCHANGED tvars
    BY <1>5 DEF vars
  <2>2. EInv'
    BY <2>1, EInvStep DEF TInv
  <2> QED
    BY <2>1, <2>2 DEF TInv, Timed, Owned, Pending, evars, tvars
<1>6. ASSUME NEW f \in Fds, WaitStep(f) PROVE LoopStep /\ UNCHANGED tvars
  BY <1>6 DEF WaitStep, EpollWaitT, LoopStep
<1>7. CASE (CallbackReturn \/ LoopReturn) /\ UNCHANGED tvars
  BY <1>2, <1>7 DEF LoopStep
<1>8. ASSUME NEW t \in Timers,
             \/ \E w \in Watchers, f \in Fds, fault \in Faults \cup {"none"} :
                  TimerCreate(t, w, f, fault)
             \/ \E fault \in (Faults \ {"list"}) \cup {"none"} : TimerStart(t, fault)
             \/ TimerStop(t)
             \/ TimerDestroy(t)
      PROVE  TInv'
  <2>1. EInv' /\ Timed' /\ Pending'
    BY <1>8, TimerCreateStep, TimerStartStep, TimerStopStep, TimerDestroyStep
  <2> QED
    BY <2>1 DEF TInv
<1> QED
  BY <1>1, <1>2, <1>3, <1>4, <1>5, <1>6, <1>7, <1>8 DEF Next

LEMMA TInductive ==
  ASSUME Rules, ~RestartFired
  PROVE  Spec => []TInv
<1>1. TimersInit => TInv
  <2> SUFFICES ASSUME TimersInit PROVE TInv
    OBVIOUS
  <2>1. EInv
    BY EInvInit DEF TimersInit
  <2> QED
    BY <2>1 DEF TimersInit, TInv, Timed, Pending
<1>2. TInv /\ [Next]_vars => TInv'
  BY TInvStep
<1> QED
  BY <1>1, <1>2, PTL DEF Spec

-----------------------------------------------------------------------------
(* Theorems about timers *)

(***************************************************************************)
(* A live timer has its watcher and an open timerfd, and nothing of a      *)
(* destroyed timer is left behind.                                         *)
(***************************************************************************)
THEOREM TimersTypeCorrect ==
  ASSUME Rules, ~RestartFired
  PROVE  Spec => []TimersTypeOK
<1>1. TInv => TimersTypeOK
  BY DEF TInv, Timed, Owned, EInv, TimersTypeOK
<1> QED
  BY <1>1, TInductive, PTL

(***************************************************************************)
(* With timers competing for descriptors and records, an active watcher's  *)
(* descriptor still is in the kernel's set with the mask last asked for.   *)
(***************************************************************************)
THEOREM WatchedBesideTimers ==
  ASSUME Rules, ~RestartFired
  PROVE  Spec => []ActiveIsMember
<1>1. TInv => ActiveIsMember
  BY DEF TInv, EInv
<1> QED
  BY <1>1, TInductive, PTL

(***************************************************************************)
(* A started timer is never silently dead: until it fires or is stopped,   *)
(* its timerfd is armed or expired and watched under its own watcher.      *)
(***************************************************************************)
THEOREM TimerIsPending ==
  ASSUME Rules, ~RestartFired
  PROVE  Spec => []StartedIsPending
<1>1. TInv => StartedIsPending
  <2> SUFFICES ASSUME TInv, NEW t \in asked
               PROVE  /\ t \in tactive
                      /\ t \in armed \cup expired
                      /\ mem[TimerFd(t)] = [ptr |-> tw[t], events |-> {"IN"}]
    BY DEF StartedIsPending
  <2>1. t \in tactive /\ t \in tlive /\ t \in armed \cup expired
    BY DEF TInv, Timed, Pending
  <2>2. tw[t] \in alive \ stale /\ active[tw[t]] /\ wev[tw[t]] = {"READ"}
    BY <2>1 DEF TInv, Timed, Owned
  <2>3. mem[wfd[tw[t]]] = [ptr |-> tw[t], events |-> EventsToEpoll({"READ"})]
    BY <2>2 DEF TInv, EInv, ActiveIsMember
  <2>4. EventsToEpoll({"READ"}) = {"IN"}
    BY DEF EventsToEpoll
  <2> QED
    BY <2>1, <2>3, <2>4 DEF TimerFd
<1> QED
  BY <1>1, TInductive, PTL


-----------------------------------------------------------------------------
(* What a batch holds of timers *)

(***************************************************************************)
(* The steps of timers leave alone the watchers whose events are waiting.  *)
(***************************************************************************)
LEMMA TimersDispatching ==
  ASSUME ~SameBatch, TInv, Dispatching, [Next]_vars
  PROVE  Dispatching'
<1>1. CASE [EpollNext]_evars
  BY <1>1, DispatchingStep DEF TInv
<1>2. ASSUME UNCHANGED <<lpc, batch, cb>>, NEW w \in Watchers,
             \A e \in batch : e.ptr # w,
             \A v \in Watchers \ {w} : /\ v \in alive => v \in alive'
                                       /\ active'[v] = active[v]
                                       /\ wev'[v] = wev[v]
      PROVE  Dispatching'
  BY <1>2 DEF Dispatching, TInv, EInv, EpollTypeOK
<1>3. ASSUME NEW t \in Timers, NEW w \in Watchers, NEW f, NEW fault,
             TimerCreate(t, w, f, fault)
      PROVE  Dispatching'
  <2>1. \A e \in batch : e.ptr # w
    BY <1>3 DEF TimerCreate, Fresh, Dispatching
  <2>2. UNCHANGED <<lpc, batch, cb>>
    BY <1>3 DEF TimerCreate
  <2>3. \A v \in Watchers \ {w} : /\ v \in alive => v \in alive'
                                  /\ active'[v] = active[v]
                                  /\ wev'[v] = wev[v]
    BY <1>3 DEF TimerCreate, TInv, EInv, EpollTypeOK
  <2> QED
    BY <1>2, <2>1, <2>2, <2>3
<1>4. ASSUME NEW t \in Timers,
             (\E fault : TimerStart(t, fault)) \/ TimerStop(t) \/ TimerDestroy(t)
      PROVE  Dispatching'
  <2> DEFINE w == tw[t]
  <2>1. w \in Watchers /\ \A e \in batch : e.ptr # w
    BY <1>4 DEF TimerStart, TimerStop, TimerDestroy, MayTouch, TInv, Timed, Owned,
                EInv, EpollTypeOK
  <2>2. UNCHANGED <<lpc, batch, cb>>
    BY <1>4 DEF TimerStart, TimerStop, TimerDestroy
  <2>3. \A v \in Watchers \ {w} : /\ v \in alive => v \in alive'
                                  /\ active'[v] = active[v]
                                  /\ wev'[v] = wev[v]
    BY <1>4 DEF TimerStart, TimerStop, TimerDestroy, Forget, TInv, EInv, EpollTypeOK
  <2> HIDE DEF w
  <2> QED
    BY <1>2, <2>1, <2>2, <2>3
<1>5. ASSUME NEW t \in Timers, TimerStartActive(t) \/ Expire(t)
      PROVE  [EpollNext]_evars
  BY <1>5 DEF TimerStartActive, Expire
<1>6. ASSUME AppStepT \/ (\E f \in Fds : WaitStep(f)) \/ (\E e \in batch : DispatchT(e))
      PROVE  [EpollNext]_evars
  BY <1>6 DEF AppStepT, WaitStep, EpollWaitT, DispatchT, EpollNext, LoopStep
<1> QED
  BY <1>1, <1>3, <1>4, <1>5, <1>6 DEF Next, vars, EpollNext, LoopStep

(***************************************************************************)
(* Whatever the application does to other timers, an entry of a timer is   *)
(* in the batch for an expiration that it is still waiting for.            *)
(***************************************************************************)
LEMMA DueStep ==
  ASSUME ~SameBatch, ~RestartFired, TInv, Dispatching, Due, [Next]_vars
  PROVE  Due'
<1>1. ASSUME UNCHANGED <<batch, tvars>> PROVE Due'
  BY <1>1 DEF Due, tvars, TimerOf
<1>2. CASE AppStepT
  <2>1. batch' = batch
    BY <1>2 DEF AppStepT, AppStep, OpenFd, CloseFd, Create, Start, Stop, Update, Destroy
  <2> QED
    BY <1>1, <1>2, <2>1 DEF AppStepT
<1>3. ASSUME NEW F \in SUBSET Fds, NEW bits \in [F -> SUBSET Conds],
             EpollWaitT(F, bits)
      PROVE  Due'
  <2>1. /\ batch' = {[fd |-> f, ptr |-> mem[f].ptr, bits |-> bits[f]] : f \in F}
        /\ UNCHANGED tvars
        /\ \A f \in F : mem[f] # NoEntry
    BY <1>3 DEF EpollWaitT, EpollWait
  <2>2. ASSUME NEW f \in F
        PROVE  wfd[mem[f].ptr] = f /\ TimerOf(mem[f].ptr) \subseteq asked \cap expired
    <3>1. Member(f, mem[f])
      BY <2>1 DEF TInv, EInv, Membership
    <3>2. ASSUME NEW t \in TimerOf(mem[f].ptr) PROVE t \in asked \cap expired
      <4>1. t \in tlive /\ tw[t] = mem[f].ptr /\ TimerFd(t) = f
        BY <3>1 DEF TimerOf, TimerFd, Member
      <4>2. t \in expired
        BY <1>3, <4>1 DEF EpollWaitT
      <4>3. t \in tactive
        BY <3>1, <4>1 DEF Member, TInv, Timed, Owned
      <4> QED
        BY <4>2, <4>3 DEF Due
    <3> QED
      BY <3>1, <3>2 DEF Member
  <2>3. \A d, e \in batch' : d.ptr = e.ptr => d = e
    BY <2>1, <2>2
  <2>4. \A e \in batch' : TimerOf(e.ptr)' \subseteq asked' \cap expired'
    <3>1. \A p : TimerOf(p)' = TimerOf(p)
      BY <2>1 DEF TimerOf, tvars
    <3> QED
      BY <2>1, <2>2, <3>1 DEF tvars
  <2> QED
    BY <2>1, <2>3, <2>4 DEF Due, tvars
<1>4. ASSUME NEW e \in batch, DispatchT(e) PROVE Due'
  <2> DEFINE fired == TimerOf(e.ptr)
  <2>1. /\ expired' = expired \ fired
        /\ asked' = asked \ (fired \ Repeating)
        /\ batch' = batch \ {e}
        /\ UNCHANGED <<tlive, tw, tactive, armed>>
    BY <1>4 DEF DispatchT, Dispatch
  <2>2. fired \subseteq expired /\ fired \cap armed \subseteq Repeating
    BY DEF Due
  <2>3. \A d \in batch' : TimerOf(d.ptr)' = TimerOf(d.ptr) /\ TimerOf(d.ptr) \cap fired = {}
    BY <2>1 DEF TimerOf, Due
  <2> HIDE DEF fired
  <2>4. \A d \in batch' : TimerOf(d.ptr)' \subseteq asked' \cap expired'
    BY <2>1, <2>3 DEF Due
  <2> QED
    BY <2>1, <2>2, <2>4 DEF Due
<1>5. ASSUME NEW t \in Timers, TimerStartActive(t) \/ Expire(t) PROVE Due'
  <2>1. batch' = batch /\ UNCHANGED <<tlive, tw, tactive>>
    BY <1>5 DEF TimerStartActive, Expire, evars
  <2>2. asked' = asked
    BY <1>5 DEF TimerStartActive, Expire
  <2>3. /\ armed' \cup expired' \subseteq armed \cup expired
        /\ armed' \cap expired' \subseteq Repeating
        /\ expired \subseteq expired'
    BY <1>5 DEF TimerStartActive, Expire, Due
  <2> QED
    BY <2>1, <2>2, <2>3 DEF Due, TimerOf
<1>6. ASSUME NEW t \in Timers, NEW w \in Watchers, NEW f, NEW fault,
             TimerCreate(t, w, f, fault)
      PROVE  Due'
  <2>1. /\ w \notin alive /\ t \notin tlive
        /\ tlive' = tlive \/ (tlive' = tlive \cup {t} /\ tw' = [tw EXCEPT ![t] = w])
        /\ tlive' = tlive => tw' = tw
        /\ UNCHANGED <<batch, tactive, armed, expired, asked>>
    BY <1>6 DEF TimerCreate, Fresh
  <2>2. ASSUME NEW e \in batch PROVE TimerOf(e.ptr)' = TimerOf(e.ptr)
    <3>1. e.ptr # w
      BY <2>1 DEF Dispatching
    <3> QED
      BY <2>1, <3>1 DEF TimerOf, TInv, Timed
  <2> QED
    BY <2>1, <2>2 DEF Due
<1>7. ASSUME NEW t \in Timers,
             (\E fault : TimerStart(t, fault)) \/ TimerStop(t) \/ TimerDestroy(t)
      PROVE  Due'
  <2>1. batch' = batch /\ t \in tlive /\ \A e \in batch : e.ptr # tw[t]
    BY <1>7 DEF TimerStart, TimerStop, TimerDestroy, MayTouch, TInv, Timed
  <2>2. ASSUME NEW e \in batch
        PROVE  TimerOf(e.ptr)' = TimerOf(e.ptr) /\ t \notin TimerOf(e.ptr)
    BY <1>7, <2>1 DEF TimerStart, TimerStop, TimerDestroy, TimerOf, TInv, Timed
  <2>3. /\ asked \ {t} \subseteq asked' /\ asked' \subseteq asked \cup {t}
        /\ armed \ {t} \subseteq armed' /\ armed' \subseteq armed \cup {t}
        /\ expired' = expired \ {t}
        /\ tactive' \ {t} \subseteq tactive
        /\ t \in tactive' \cap armed' => t \in asked'
    BY <1>7 DEF TimerStart, TimerStop, TimerDestroy
  <2>4. \A e \in batch' : TimerOf(e.ptr)' \subseteq asked' \cap expired'
    BY <2>1, <2>2, <2>3 DEF Due
  <2>5. tactive' \cap (armed' \cup expired') \subseteq asked'
    BY <2>3 DEF Due
  <2> QED
    BY <2>1, <2>3, <2>4, <2>5 DEF Due
<1>8. CASE \/ (CallbackReturn \/ LoopReturn) /\ UNCHANGED tvars
           \/ UNCHANGED vars
  BY <1>1, <1>8 DEF CallbackReturn, LoopReturn, vars, evars
<1> QED
  BY <1>2, <1>3, <1>4, <1>5, <1>6, <1>7, <1>8 DEF Next, WaitStep

(***************************************************************************)
(* A timer's callback runs only between pd_timer_start and pd_timer_stop,  *)
(* and only for an expiration of its own, as long as callbacks leave alone *)
(* the timers whose event is waiting in the same batch.                    *)
(***************************************************************************)
THEOREM TimerFiresWhenDue ==
  ASSUME Rules, ~SameBatch, ~RestartFired
  PROVE  Spec => FiresWhenDue
<1>1. TimersInit => Dispatching /\ Due
  BY DEF TimersInit, EpollInit, Dispatching, NoCb, Due
<1>2. TInv /\ Dispatching /\ Due /\ [Next]_vars => Dispatching' /\ Due'
  BY TimersDispatching, DueStep
<1>3. Due => \A e \in batch : TimerOf(e.ptr) \subseteq asked \cap expired
  BY DEF Due
<1>4. Due /\ [Next]_vars
        => [\A e \in batch \ batch' : TimerOf(e.ptr) \subseteq asked \cap expired]_vars
  BY <1>3
<1> QED
  BY <1>1, <1>2, <1>4, TInductive, PTL DEF Spec, FiresWhenDue

=============================================================================
