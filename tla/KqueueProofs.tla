---------------------------- MODULE KqueueProofs ----------------------------
(***************************************************************************)
(* Proofs about Kqueue for any number of watchers, timers and descriptors, *)
(* any masks and batches of any size.  Three behaviours of the code break  *)
(* what is stated here, and have runs or a fault of their own: an update   *)
(* that changes the READ and WRITE bits (KqueueUpdate), a kevent call that *)
(* fails at its second change, and a failure to make a timer periodic,     *)
(* which is ignored.  Watchers are proved about on their own (WInv), then  *)
(* the timers and what a batch holds (LInv).                               *)
(***************************************************************************)
EXTENDS Kqueue, RegistrationsProofs, FiniteSetTheorems

\* What the proofs about watchers assume of masks and failures
Rules == ~ChangeMask /\ "second" \notin Faults

-----------------------------------------------------------------------------
(* The inductive invariants *)

\* The watchers' half of the type invariant
WatchersOK ==
  /\ open \subseteq Fds
  /\ kq \in [Fds -> [Filters -> Entries \cup {NoEntry}]]
  /\ regs \in Seq(Records)
  /\ alive \subseteq Watchers /\ stale \subseteq alive
  /\ wfd \in [Watchers -> Fds]
  /\ wev \in [Watchers -> SUBSET PdEvents]
  /\ active \in [Watchers -> BOOLEAN]
  /\ \A f \in Fds \ open : kq[f] = NoFilters

\* The descriptor and the watcher are keys of the records, and every record
\* is that of an active watcher: unregistering cannot fail, so none is left.
Recorded ==
  /\ Keyed(regs)
  /\ \A x \in Recs(regs) : /\ x.watcher \in alive
                           /\ active[x.watcher]
                           /\ wfd[x.watcher] = x.fd

\* A filter belongs to an active watcher of that very descriptor, and has its
\* record.
Member(f, w) ==
  /\ w \in alive \ stale
  /\ active[w]
  /\ wfd[w] = f
  /\ [fd |-> f, watcher |-> w] \in Recs(regs)

Membership ==
  \A f \in Fds, x \in Filters : kq[f][x] # NoEntry => Member(f, kq[f][x].udata)

\* A watcher has a descriptor of its own and it is open, unless the watcher is
\* stale.
OneWatcher ==
  \A v \in alive \ stale :
    /\ wfd[v] \in open
    /\ \A w \in alive \ stale : wfd[v] = wfd[w] => v = w

\* The filters of a descriptor that w watches for events
Wanted(w, events) ==
  [x \in Filters |-> IF x \in events
                       THEN [udata |-> w, clear |-> "EDGE" \in events, enabled |-> TRUE]
                       ELSE NoEntry]

Watched == \A w \in alive \ stale : active[w] => kq[wfd[w]] = Wanted(w, wev[w])

WInv == WatchersOK /\ Recorded /\ Membership /\ OneWatcher /\ Watched

\* The half of the type invariant that timers and the loop have
LoopOK ==
  /\ tlive \subseteq Timers /\ tactive \subseteq tlive
  /\ initial \subseteq TwoPhase \cap tlive
  /\ ktimer \in [Timers -> {"none", "oneshot", "periodic"}]
  /\ expired \subseteq {t \in Timers : ktimer[t] # "none"}
  /\ lpc \in {"out", "dispatch", "callback"}
  /\ \A e \in batch : /\ e.kind \in Filters \cup {"TIMER"}
                      /\ e.ptr \in Watchers \cup Timers
                      /\ e.flags \subseteq Flags
  /\ cb \in [ptr : Watchers \cup Timers \cup {Nobody}, events : SUBSET PdEvents]

\* The entries that are not processed yet belong to active timers and to
\* active watchers that asked for their filter; a timer has one at most.
Dispatching ==
  /\ lpc = "out" => batch = {}
  /\ \A e \in batch :
       IF e.kind = "TIMER"
         THEN e.ptr \in tactive
         ELSE e.ptr \in alive /\ active[e.ptr] /\ e.kind \in wev[e.ptr]
  /\ \A d, e \in batch : d.kind = "TIMER" /\ d.ptr = e.ptr => d = e
  /\ lpc = "callback" <=> cb.ptr # Nobody
  /\ lpc # "callback" => cb = NoCb

LInv == LoopOK /\ Dispatching /\ StartedIsPending

-----------------------------------------------------------------------------
(* What the backend's operations do to the records and the queue *)

Queues == [Fds -> [Filters -> Entries \cup {NoEntry}]]

(***************************************************************************)
(* The filters of a watcher, and ActiveIsMember in these terms.            *)
(***************************************************************************)
LEMMA WantedType ==
  ASSUME NEW w \in Watchers, NEW events \in SUBSET PdEvents
  PROVE  /\ Wanted(w, events) \in [Filters -> Entries \cup {NoEntry}]
         /\ \A x \in Filters : /\ Wanted(w, events)[x] # NoEntry <=> x \in events
                               /\ x \in events => Wanted(w, events)[x].udata = w
<1> DEFINE entry == [udata |-> w, clear |-> "EDGE" \in events, enabled |-> TRUE]
<1>1. ("EDGE" \in events) \in BOOLEAN
  OBVIOUS
<1>2. entry \in Entries /\ entry.udata = w
  BY <1>1, Zenon DEF Entries
<1>3. entry # NoEntry
  BY <1>2, NoEntryAssumption
<1>4. Wanted(w, events) = [x \in Filters |-> IF x \in events THEN entry ELSE NoEntry]
  BY DEF Wanted
<1> HIDE DEF entry
<1> QED
  BY <1>2, <1>3, <1>4

(***************************************************************************)
(* EV_ADD on a descriptor without filters, and EV_DELETE of what was added.*)
(***************************************************************************)
LEMMA FiltersAdded ==
  ASSUME NEW k \in Queues, NEW w \in Watchers, NEW fd \in Fds,
         NEW events \in SUBSET PdEvents, k[fd] = NoFilters
  PROVE  AddFilters(k, w, fd, events \cap Filters, events)
           = [k EXCEPT ![fd] = Wanted(w, events)]
<1> DEFINE entry == [udata |-> w, clear |-> "EDGE" \in events, enabled |-> TRUE]
           added == [x \in Filters |-> IF x \in events \cap Filters
                                         THEN entry ELSE k[fd][x]]
<1>1. added = Wanted(w, events)
  BY DEF Wanted, NoFilters
<1>2. AddFilters(k, w, fd, events \cap Filters, events) = [k EXCEPT ![fd] = added]
  BY DEF AddFilters
<1> HIDE DEF added
<1> QED
  BY <1>1, <1>2

LEMMA FiltersDeleted ==
  ASSUME NEW k \in Queues, NEW w \in Watchers, NEW fd \in Fds,
         NEW events \in SUBSET PdEvents, k[fd] = Wanted(w, events)
  PROVE  DeleteFilters(k, fd, events \cap Filters) = [k EXCEPT ![fd] = NoFilters]
<1> DEFINE rest == [x \in Filters |-> IF x \in events \cap Filters
                                        THEN NoEntry ELSE k[fd][x]]
<1>1. \A x \in Filters : k[fd][x] # NoEntry <=> x \in events
  BY WantedType
<1>2. rest = NoFilters
  BY <1>1 DEF NoFilters
<1>3. ~("READ" \in events \cap Filters /\ k[fd]["READ"] = NoEntry)
  BY <1>1 DEF Filters
<1>4. DeleteFilters(k, fd, events \cap Filters) = [k EXCEPT ![fd] = rest]
  BY <1>3 DEF DeleteFilters
<1> HIDE DEF rest
<1> QED
  BY <1>2, <1>4

LEMMA NothingDeleted ==
  ASSUME NEW k \in Queues, NEW fd \in Fds, NEW events, k[fd] = NoFilters
  PROVE  DeleteFilters(k, fd, events \cap Filters) = k
<1> DEFINE rest == [x \in Filters |-> IF x \in events \cap Filters
                                        THEN NoEntry ELSE k[fd][x]]
<1>1. rest = NoFilters
  BY DEF NoFilters
<1>2. \/ DeleteFilters(k, fd, events \cap Filters) = k
      \/ DeleteFilters(k, fd, events \cap Filters) = [k EXCEPT ![fd] = rest]
  BY DEF DeleteFilters
<1> HIDE DEF rest
<1>3. [k EXCEPT ![fd] = NoFilters] = k
  BY DEF Queues
<1> QED
  BY <1>1, <1>2, <1>3

\* The outcome n of registering w: its filters and its record, or nothing but
\* the eviction of what other watchers had recorded of the descriptor; of a
\* descriptor that is not in o only a mask without filters can be registered
Registering(n, o, r, k, w, fd, events) ==
  /\ n.ok \in BOOLEAN
  /\ n.ok /\ fd \notin o => events \cap Filters = {}
  /\ n.regs \in Seq(Records)
  /\ Keyed(n.regs)
  /\ n.ok =>
       /\ n.kq = [k EXCEPT ![fd] = Wanted(w, events)]
       /\ Recs(n.regs) = {x \in Recs(r) : x.fd # fd}
                           \cup {[fd |-> fd, watcher |-> w]}
  /\ ~n.ok =>
       /\ n.kq = k
       /\ Recs(n.regs) \subseteq Recs(r)
       /\ \A x \in Recs(r) : x.fd # fd => x \in Recs(n.regs)

(***************************************************************************)
(* kqueue_watcher_register of a watcher without a record, on a descriptor  *)
(* without filters: all of them are added, or none is left, the failure to *)
(* record them included.                                                   *)
(***************************************************************************)
LEMMA Registered ==
  ASSUME NEW o, NEW r \in Seq(Records), NEW k \in Queues, NEW w \in Watchers,
         NEW fd \in Fds, NEW events \in SUBSET PdEvents, NEW fault,
         fault # "second", k[fd] = NoFilters,
         Keyed(r), \A x \in Recs(r) : x.watcher # w
  PROVE  Registering(Register(o, r, k, w, fd, events, fault), o, r, k, w, fd, events)
<1> DEFINE kept  == EvictStale(r, fd, w)
           new   == [fd |-> fd, watcher |-> w]
           want  == events \cap Filters
           added == AddFilters(k, w, fd, want, events)
           n     == Register(o, r, k, w, fd, events, fault)
<1>1. /\ kept \in Seq(Records)
      /\ Keyed(kept)
      /\ Recs(kept) = {x \in Recs(r) : x.fd # fd}
  BY StaleRecordEvicted
<1>2. new \in Records /\ \A y \in Recs(kept) : y.fd # new.fd /\ y.watcher # new.watcher
  BY <1>1 DEF Records
<1>3. /\ Append(kept, new) \in Seq(Records)
      /\ Keyed(Append(kept, new))
      /\ Recs(Append(kept, new)) = Recs(kept) \cup {new}
  BY <1>1, <1>2, RecordAdded
<1>4. added = [k EXCEPT ![fd] = Wanted(w, events)]
  BY FiltersAdded
<1>5. DeleteFilters(added, fd, want) = k
  <2> HIDE DEF added
  <2>1. added \in Queues /\ added[fd] = Wanted(w, events)
    BY <1>4, WantedType DEF Queues
  <2>2. DeleteFilters(added, fd, want) = [added EXCEPT ![fd] = NoFilters]
    <3>1. PICK q \in Queues : q = added
      BY <2>1
    <3>2. q[fd] = Wanted(w, events)
      BY <2>1, <3>1
    <3>3. DeleteFilters(q, fd, events \cap Filters) = [q EXCEPT ![fd] = NoFilters]
      BY <3>2, FiltersDeleted
    <3> QED
      BY <3>1, <3>3
  <2> QED
    BY <1>4, <2>2 DEF Queues
<1>6. CASE fault = "alloc"
  <2>1. n = Done(FALSE, r, k)
    BY <1>6 DEF Register
  <2> QED
    BY <2>1 DEF Registering, Done
<1>7. CASE fault # "alloc" /\ want # {} /\ (fd \notin o \/ fault = "first")
  <2>1. n = Done(FALSE, kept, k)
    BY <1>7 DEF Register
  <2> HIDE DEF n, kept
  <2>2. Registering(n, o, r, k, w, fd, events)
    BY <1>1, <2>1 DEF Registering, Done
  <2> QED
    BY <2>2 DEF n
<1>8. CASE fault = "grow" /\ (fd \in o \/ want = {})
  <2>1. n = Done(FALSE, kept, DeleteFilters(added, fd, want))
    BY <1>8 DEF Register
  <2> HIDE DEF n, kept, added
  <2>2. Registering(n, o, r, k, w, fd, events)
    BY <1>1, <1>5, <2>1 DEF Registering, Done
  <2> QED
    BY <2>2 DEF n
<1>9. CASE /\ fault \notin {"alloc", "grow"}
           /\ ~(want # {} /\ (fd \notin o \/ fault = "first"))
  <2>1. n = Done(TRUE, Append(kept, new), added)
    BY <1>9 DEF Register
  <2> HIDE DEF n, kept, added
  <2>2. Registering(n, o, r, k, w, fd, events)
    BY <1>1, <1>3, <1>4, <1>9, <2>1 DEF Registering, Done
  <2> QED
    BY <2>2 DEF n
<1> QED
  BY <1>6, <1>7, <1>8, <1>9

\* The outcome n of unregistering w, which does not fail: its record is gone,
\* and if it had one, the filters that its mask names are deleted
Unregistering(n, r, k, w, fd, events) ==
  /\ n.ok = TRUE
  /\ n.regs \in Seq(Records)
  /\ Keyed(n.regs)
  /\ Recs(n.regs) = {x \in Recs(r) : x.watcher # w}
  /\ (\E x \in Recs(r) : x.watcher = w)
       => n.kq = DeleteFilters(k, fd, events \cap Filters)
  /\ (\A x \in Recs(r) : x.watcher # w) => n.kq = k

LEMMA Unregistered ==
  ASSUME NEW r \in Seq(Records), NEW k, NEW w, NEW fd, NEW events, Keyed(r)
  PROVE  Unregistering(Unregister(r, k, w, fd, events), r, k, w, fd, events)
<1> DEFINE n == Unregister(r, k, w, fd, events)
<1>1. CASE ~Owns(r, w)
  <2>1. n = Done(TRUE, r, k)
    BY <1>1 DEF Unregister
  <2> QED
    BY <1>1, <2>1, OwnsRecord DEF Unregistering, Done
<1>2. CASE Owns(r, w)
  <2>1. n = Done(TRUE, RemoveRecord(r, OwnRecord(r, w)),
                 DeleteFilters(k, fd, events \cap Filters))
    BY <1>2 DEF Unregister
  <2>2. /\ n.regs \in Seq(Records)
        /\ Keyed(n.regs)
        /\ Recs(n.regs) = {x \in Recs(r) : x.watcher # w}
    BY <1>2, <2>1, OwnRecordRemoved DEF Done
  <2>3. n.ok = TRUE /\ n.kq = DeleteFilters(k, fd, events \cap Filters)
    BY <2>1 DEF Done
  <2> HIDE DEF n
  <2>4. \E x \in Recs(r) : x.watcher = w
    BY <1>2, OwnsRecord
  <2>5. Unregistering(n, r, k, w, fd, events)
    BY <2>2, <2>3, <2>4 DEF Unregistering
  <2> QED
    BY <2>5 DEF n
<1> QED
  BY <1>1, <1>2

(***************************************************************************)
(* The rollback of pd_watcher_init leaves the queue as it was.             *)
(***************************************************************************)
LEMMA Initialised ==
  ASSUME NEW o, NEW r \in Seq(Records), NEW k \in Queues, NEW w \in Watchers,
         NEW fd \in Fds, NEW events \in SUBSET PdEvents, NEW fault,
         fault # "second", k[fd] = NoFilters,
         Keyed(r), \A x \in Recs(r) : x.watcher # w
  PROVE  Registering(InitWatcher(o, r, k, w, fd, events, fault), o, r, k, w, fd, events)
<1> DEFINE reg   == Register(o, r, k, w, fd, events, fault)
           unreg == Unregister(reg.regs, reg.kq, w, fd, events)
           new   == [fd |-> fd, watcher |-> w]
<1>1. Registering(reg, o, r, k, w, fd, events)
  BY Registered
<1>2. InitWatcher(o, r, k, w, fd, events, fault)
        = IF reg.ok /\ fault = "list"
            THEN Done(FALSE, unreg.regs, unreg.kq) ELSE reg
  BY DEF InitWatcher
<1>3. CASE reg.ok /\ fault = "list"
  <2>1. /\ reg.kq = [k EXCEPT ![fd] = Wanted(w, events)]
        /\ Recs(reg.regs) = {x \in Recs(r) : x.fd # fd} \cup {new}
        /\ reg.regs \in Seq(Records) /\ Keyed(reg.regs)
    BY <1>1, <1>3 DEF Registering
  <2> HIDE DEF reg
  <2>2. new \in Recs(reg.regs) /\ new.watcher = w
    BY <2>1
  <2>3. Unregistering(unreg, reg.regs, reg.kq, w, fd, events)
    BY <2>1, Unregistered
  <2> HIDE DEF unreg
  <2>4. unreg.kq = DeleteFilters(reg.kq, fd, events \cap Filters)
    BY <2>2, <2>3 DEF Unregistering
  <2>5. reg.kq \in Queues /\ reg.kq[fd] = Wanted(w, events)
    BY <2>1, WantedType DEF Queues
  <2>6. unreg.kq = [reg.kq EXCEPT ![fd] = NoFilters]
    <3>1. PICK q \in Queues : q = reg.kq
      BY <2>5
    <3>2. q[fd] = Wanted(w, events)
      BY <2>5, <3>1
    <3>3. DeleteFilters(q, fd, events \cap Filters) = [q EXCEPT ![fd] = NoFilters]
      BY <3>2, FiltersDeleted
    <3> QED
      BY <2>4, <3>1, <3>3
  <2>7. unreg.kq = k
    BY <2>1, <2>6 DEF Queues
  <2>8. /\ Recs(unreg.regs) = {x \in Recs(r) : x.fd # fd}
        /\ unreg.regs \in Seq(Records) /\ Keyed(unreg.regs)
    BY <2>1, <2>3 DEF Unregistering
  <2>9. Registering(Done(FALSE, unreg.regs, unreg.kq), o, r, k, w, fd, events)
    BY <2>7, <2>8 DEF Registering, Done
  <2> QED
    BY <1>2, <1>3, <2>9 DEF reg, unreg
<1>4. CASE ~(reg.ok /\ fault = "list")
  BY <1>1, <1>2, <1>4
<1> QED
  BY <1>3, <1>4


-----------------------------------------------------------------------------
(* Every step preserves the invariant of the watchers *)

(***************************************************************************)
(* A descriptor that no active watcher uses has no filters.                *)
(***************************************************************************)
LEMMA Unwatched ==
  ASSUME WInv, NEW f \in Fds, \A v \in alive \ stale : wfd[v] = f => ~active[v]
  PROVE  kq[f] = NoFilters
<1>1. ASSUME NEW x \in Filters, kq[f][x] # NoEntry PROVE FALSE
  <2>1. Member(f, kq[f][x].udata)
    BY <1>1 DEF WInv, Membership
  <2> QED
    BY <2>1 DEF Member
<1>2. kq[f] = [x \in Filters |-> kq[f][x]]
  BY DEF WInv, WatchersOK
<1> QED
  BY <1>1, <1>2 DEF NoFilters

(***************************************************************************)
(* Registering a watcher of a descriptor that no other live watcher uses.  *)
(* Both pd_watcher_create and pd_watcher_start end in this.                *)
(***************************************************************************)
LEMMA RegisterStep ==
  ASSUME WInv, NEW w \in Watchers, NEW f \in Fds, NEW ev \in SUBSET PdEvents,
         NEW n, Registering(n, open, regs, kq, w, f, ev),
         \A x \in Recs(regs) : x.watcher # w,
         \A v \in alive \ stale : wfd[v] = f => v = w /\ ~active[w],
         w \notin stale,
         regs' = n.regs, kq' = n.kq, open' = open,
         n.ok => /\ alive' = alive \cup {w}
                 /\ wfd' = [wfd EXCEPT ![w] = f]
                 /\ wev' = [wev EXCEPT ![w] = ev]
                 /\ active' = [active EXCEPT ![w] = TRUE]
                 /\ stale' = IF f \in open THEN stale ELSE stale \cup {w},
         ~n.ok => UNCHANGED <<alive, wfd, wev, active, stale>>
  PROVE  WInv'
<1> DEFINE new == [fd |-> f, watcher |-> w]
<1>1. kq[f] = NoFilters /\ \A x \in Filters : kq[f][x] = NoEntry
  BY Unwatched DEF NoFilters
<1>2. regs' \in Seq(Records) /\ Keyed(regs')
  BY DEF Registering
<1>3. \A x \in Recs(regs) : x.watcher \in Watchers
  <2>1. Recs(regs) \subseteq Records
    BY RecordType DEF WInv, WatchersOK
  <2> QED
    BY <2>1 DEF Records
<1>4. CASE ~n.ok
  <2>1. kq' = kq /\ UNCHANGED <<alive, wfd, wev, active, stale>>
    BY <1>4 DEF Registering
  <2>2. /\ Recs(regs') \subseteq Recs(regs)
        /\ \A x \in Recs(regs) : x.fd # f => x \in Recs(regs')
    BY <1>4 DEF Registering
  <2>3. WatchersOK' /\ Recorded' /\ OneWatcher' /\ Watched'
    BY <1>2, <2>1, <2>2 DEF WInv, WatchersOK, Recorded, OneWatcher, Watched
  <2>4. Membership'
    <3> SUFFICES ASSUME NEW g \in Fds, NEW x \in Filters, kq[g][x] # NoEntry
                 PROVE  Member(g, kq[g][x].udata)'
      BY <2>1 DEF Membership
    <3>1. g # f /\ Member(g, kq[g][x].udata)
      BY <1>1 DEF WInv, Membership
    <3> QED
      BY <2>1, <2>2, <3>1 DEF Member
  <2> QED
    BY <2>3, <2>4 DEF WInv
<1>5. CASE n.ok
  <2>1. /\ alive' = alive \cup {w}
        /\ wfd' = [wfd EXCEPT ![w] = f]
        /\ wev' = [wev EXCEPT ![w] = ev]
        /\ active' = [active EXCEPT ![w] = TRUE]
        /\ stale' = IF f \in open THEN stale ELSE stale \cup {w}
        /\ f \notin open => ev \cap Filters = {}
    BY <1>5 DEF Registering
  <2>2. /\ kq' = [kq EXCEPT ![f] = Wanted(w, ev)]
        /\ Recs(regs') = {x \in Recs(regs) : x.fd # f} \cup {new}
    BY <1>5 DEF Registering
  <2>3. /\ kq' \in [Fds -> [Filters -> Entries \cup {NoEntry}]]
        /\ kq'[f] = Wanted(w, ev)
        /\ \A g \in Fds : g # f => kq'[g] = kq[g]
    BY <2>2, WantedType DEF WInv, WatchersOK
  <2>4. wfd'[w] = f /\ active'[w] = TRUE /\ wev'[w] = ev
    BY <2>1 DEF WInv, WatchersOK
  <2>5. \A v \in Watchers \ {w} :
          wfd'[v] = wfd[v] /\ active'[v] = active[v] /\ wev'[v] = wev[v]
    BY <2>1 DEF WInv, WatchersOK
  <2>6. WatchersOK'
    <3>0. f \notin open => Wanted(w, ev) = NoFilters
      BY <2>1 DEF Wanted, NoFilters
    <3>1. \A g \in Fds \ open' : kq'[g] = NoFilters
      BY <2>3, <3>0 DEF WInv, WatchersOK
    <3>2. wfd' \in [Watchers -> Fds] /\ wev' \in [Watchers -> SUBSET PdEvents]
      BY <2>1 DEF WInv, WatchersOK
    <3>3. active' \in [Watchers -> BOOLEAN]
      BY <2>1 DEF WInv, WatchersOK
    <3> QED
      BY <1>2, <2>1, <2>3, <3>1, <3>2, <3>3 DEF WInv, WatchersOK
  <2>7. Recorded'
    <3>1. ASSUME NEW x \in Recs(regs)
          PROVE  /\ x.watcher \in alive' /\ active'[x.watcher]
                 /\ wfd'[x.watcher] = x.fd
      BY <1>3, <2>1, <2>5 DEF WInv, Recorded
    <3> QED
      BY <1>2, <2>1, <2>2, <2>4, <3>1 DEF Recorded
  <2>8. Membership'
    <3> SUFFICES ASSUME NEW g \in Fds, NEW x \in Filters, kq'[g][x] # NoEntry
                 PROVE  Member(g, kq[g][x].udata)'
      BY DEF Membership
    <3>1. CASE g = f
      <4>1. kq'[g][x].udata = w /\ x \in ev
        BY <2>3, <3>1, WantedType
      <4>2. Member(f, w)'
        BY <2>1, <2>2, <2>4, <4>1 DEF Member
      <4> QED
        BY <3>1, <4>1, <4>2
    <3>2. CASE g # f
      <4>1. kq'[g] = kq[g] /\ Member(g, kq[g][x].udata)
        BY <2>3, <3>2 DEF WInv, Membership
      <4>2. kq[g][x].udata # w /\ kq[g][x].udata \in Watchers
        BY <4>1 DEF Member, WInv, WatchersOK
      <4> QED
        BY <2>1, <2>2, <2>5, <3>2, <4>1, <4>2 DEF Member
    <3> QED
      BY <3>1, <3>2
  <2>9. OneWatcher'
    BY <2>1, <2>4, <2>5 DEF WInv, WatchersOK, OneWatcher
  <2>10. Watched'
    <3> SUFFICES ASSUME NEW v \in alive' \ stale', active'[v]
                 PROVE  kq'[wfd'[v]] = Wanted(v, wev'[v])
      BY DEF Watched
    <3>1. CASE v = w
      BY <2>3, <2>4, <3>1
    <3>2. CASE v # w
      <4>1. v \in alive \ stale /\ v \in Watchers /\ wfd[v] # f /\ wfd[v] \in Fds
        BY <2>1, <3>2 DEF WInv, WatchersOK
      <4> QED
        BY <2>3, <2>5, <3>2, <4>1 DEF WInv, Watched
    <3> QED
      BY <3>1, <3>2
  <2> QED
    BY <2>6, <2>7, <2>8, <2>9, <2>10 DEF WInv
<1> QED
  BY <1>4, <1>5 DEF Registering

\* The outcome n of unregistering w, or of doing nothing if it is not active
Released(n, w) ==
  /\ n.regs \in Seq(Records) /\ Keyed(n.regs)
  /\ Recs(n.regs) = {x \in Recs(regs) : x.watcher # w}
  /\ n.kq \in [Fds -> [Filters -> Entries \cup {NoEntry}]]
  /\ \A g \in Fds : n.kq[g] = NoFilters \/ n.kq[g] = kq[g]
  /\ \A g \in Fds, x \in Filters : n.kq[g][x] # NoEntry => kq[g][x].udata # w
  /\ \A v \in alive \ stale : active[v] /\ v # w => n.kq[wfd[v]] = kq[wfd[v]]

(***************************************************************************)
(* Unregistering a live watcher takes away its own record and its own      *)
(* filters only, also when its descriptor was closed and its number is     *)
(* another watcher's by now.                                               *)
(***************************************************************************)
LEMMA UnregisterStep ==
  ASSUME WInv, NEW w \in alive, NEW n,
         \/ n = Unregister(regs, kq, w, wfd[w], wev[w])
         \/ n = Done(TRUE, regs, kq) /\ ~active[w]
  PROVE  Released(n, w)
<1> DEFINE fd == wfd[w]
<1>0. /\ w \in Watchers
      /\ fd \in Fds /\ wev[w] \in SUBSET PdEvents
      /\ regs \in Seq(Records) /\ Keyed(regs)
      /\ kq \in Queues
  BY DEF WInv, WatchersOK, Recorded, Queues
<1>1. ASSUME NEW g \in Fds, NEW x \in Filters, kq[g][x] # NoEntry, kq[g][x].udata = w
      PROVE  /\ g = fd /\ w \notin stale /\ active[w]
             /\ \E y \in Recs(regs) : y.watcher = w
  <2>1. Member(g, w)
    BY <1>1 DEF WInv, Membership
  <2>2. [fd |-> g, watcher |-> w].watcher = w
    OBVIOUS
  <2> QED
    BY <2>1, <2>2 DEF Member
<1>2. CASE \A y \in Recs(regs) : y.watcher # w
  <2>1. n.kq = kq
    <3>1. CASE n = Done(TRUE, regs, kq)
      BY <3>1 DEF Done
    <3>2. CASE n = Unregister(regs, kq, w, fd, wev[w])
      <4>1. Unregistering(n, regs, kq, w, fd, wev[w])
        BY <1>0, <3>2, Unregistered
      <4> QED
        BY <1>2, <4>1 DEF Unregistering
    <3> QED
      BY <3>1, <3>2
  <2>2. /\ n.regs \in Seq(Records) /\ Keyed(n.regs)
        /\ Recs(n.regs) = {x \in Recs(regs) : x.watcher # w}
    <3>1. CASE n = Done(TRUE, regs, kq)
      BY <1>0, <1>2, <3>1 DEF Done
    <3>2. CASE n = Unregister(regs, kq, w, fd, wev[w])
      <4>1. Unregistering(n, regs, kq, w, fd, wev[w])
        BY <1>0, <3>2, Unregistered
      <4> QED
        BY <4>1 DEF Unregistering
    <3> QED
      BY <3>1, <3>2
  <2> QED
    BY <1>0, <1>1, <1>2, <2>1, <2>2 DEF Queues, Released
<1>3. CASE \E y \in Recs(regs) : y.watcher = w
  <2>1. PICK y \in Recs(regs) : y.watcher = w /\ y.fd = fd
    BY <1>3 DEF WInv, Recorded
  <2>2. active[w]
    BY <2>1 DEF WInv, Recorded
  <2>3. Unregistering(n, regs, kq, w, fd, wev[w])
    BY <1>0, <2>2, Unregistered
  <2>4. /\ n.regs \in Seq(Records) /\ Keyed(n.regs)
        /\ Recs(n.regs) = {x \in Recs(regs) : x.watcher # w}
        /\ n.kq = DeleteFilters(kq, fd, wev[w] \cap Filters)
    BY <1>3, <2>3 DEF Unregistering
  <2>5. ASSUME NEW x \in Filters, kq[fd][x] # NoEntry
        PROVE  kq[fd][x].udata = w
    <3> DEFINE p == kq[fd][x].udata
               z == [fd |-> fd, watcher |-> p]
    <3>1. z \in Recs(regs) /\ z.fd = fd /\ z.watcher = p
      BY <1>0, <2>5 DEF WInv, Membership, Member
    <3> HIDE DEF p, z
    <3>2. z = y
      BY <1>0, <2>1, <3>1 DEF Keyed, Recs
    <3> QED
      BY <2>1, <3>1, <3>2 DEF p
  <2>6. \/ n.kq = kq /\ kq[fd] = NoFilters
        \/ n.kq = [kq EXCEPT ![fd] = NoFilters]
    <3>1. CASE w \in stale
      <4>1. \A x \in Filters : kq[fd][x] = NoEntry
        BY <1>0, <1>1, <2>5, <3>1
      <4>2. kq[fd] = [x \in Filters |-> kq[fd][x]]
        BY <1>0 DEF Queues
      <4>3. kq[fd] = NoFilters
        BY <4>1, <4>2 DEF NoFilters
      <4> QED
        BY <1>0, <2>4, <4>3, NothingDeleted
    <3>2. CASE w \notin stale
      <4>1. kq[fd] = Wanted(w, wev[w])
        BY <2>2, <3>2 DEF WInv, Watched
      <4>2. DeleteFilters(kq, fd, wev[w] \cap Filters) = [kq EXCEPT ![fd] = NoFilters]
        BY <1>0, <4>1, FiltersDeleted
      <4> QED
        BY <2>4, <4>2
    <3> QED
      BY <3>1, <3>2
  <2>7. \A x \in Filters : n.kq[fd][x] = NoEntry
    <3>1. n.kq[fd] = NoFilters
      BY <1>0, <2>6 DEF Queues
    <3> QED
      BY <3>1 DEF NoFilters
  <2>8. /\ n.kq \in [Fds -> [Filters -> Entries \cup {NoEntry}]]
        /\ \A g \in Fds : n.kq[g] = NoFilters \/ n.kq[g] = kq[g]
        /\ \A g \in Fds : g # fd => n.kq[g] = kq[g]
    <3>1. NoFilters \in [Filters -> Entries \cup {NoEntry}]
      BY DEF NoFilters
    <3> QED
      BY <1>0, <2>6, <3>1 DEF Queues
  <2>9. \A g \in Fds, x \in Filters : n.kq[g][x] # NoEntry => kq[g][x].udata # w
    BY <1>1, <2>7, <2>8
  <2>10. ASSUME NEW v \in alive \ stale, active[v], v # w
         PROVE  n.kq[wfd[v]] = kq[wfd[v]]
    <3>1. v \in Watchers /\ wfd[v] \in Fds /\ kq[wfd[v]] = Wanted(v, wev[v])
          /\ wev[v] \in SUBSET PdEvents
      BY <2>10 DEF WInv, WatchersOK, Watched
    <3>2. CASE wfd[v] # fd
      BY <2>8, <3>1, <3>2
    <3>3. CASE wfd[v] = fd
      <4>1. ASSUME NEW x \in Filters, kq[fd][x] # NoEntry PROVE FALSE
        <5>1. x \in wev[v]
          BY <3>1, <3>3, <4>1, WantedType
        <5>2. kq[fd][x].udata = v
          BY <3>1, <3>3, <5>1, WantedType
        <5> QED
          BY <2>5, <2>10, <4>1, <5>2
      <4>2. kq[fd] = [x \in Filters |-> kq[fd][x]]
        BY <1>0 DEF Queues
      <4>3. kq[fd] = NoFilters
        BY <4>1, <4>2 DEF NoFilters
      <4> QED
        BY <1>0, <2>8, <3>3, <4>3
    <3> QED
      BY <3>2, <3>3
  <2> QED
    BY <2>4, <2>8, <2>9, <2>10 DEF Released
<1> QED
  BY <1>2, <1>3


(***************************************************************************)
(* The application's descriptors: a number that is opened again has no     *)
(* filters, and closing one makes its watchers stale.                      *)
(***************************************************************************)
LEMMA DescriptorStep ==
  ASSUME WInv, NEW f \in Fds, OpenFd(f) \/ CloseFd(f)
  PROVE  WInv'
<1>1. CASE OpenFd(f)
  BY <1>1 DEF OpenFd, WInv, WatchersOK, Recorded, Membership, Member, OneWatcher, Watched
<1>2. CASE CloseFd(f)
  <2>1. /\ kq' = [kq EXCEPT ![f] = NoFilters]
        /\ open' = open \ {f}
        /\ stale' = stale \cup {w \in alive : wfd[w] = f}
        /\ UNCHANGED <<regs, alive, wfd, wev, active>>
    BY <1>2 DEF CloseFd
  <2>2. /\ kq' \in [Fds -> [Filters -> Entries \cup {NoEntry}]]
        /\ kq'[f] = NoFilters
        /\ \A g \in Fds : g # f => kq'[g] = kq[g]
    <3>1. NoFilters \in [Filters -> Entries \cup {NoEntry}]
      BY DEF NoFilters
    <3> QED
      BY <2>1, <3>1 DEF WInv, WatchersOK
  <2>3. WatchersOK'
    BY <2>1, <2>2 DEF WInv, WatchersOK
  <2>4. Recorded' /\ OneWatcher'
    BY <2>1 DEF WInv, Recorded, OneWatcher
  <2>5. Membership'
    <3> SUFFICES ASSUME NEW g \in Fds, NEW x \in Filters, kq'[g][x] # NoEntry
                 PROVE  Member(g, kq[g][x].udata)'
      BY DEF Membership
    <3>1. g # f
      BY <2>2 DEF NoFilters
    <3>2. kq'[g] = kq[g] /\ Member(g, kq[g][x].udata)
      BY <2>2, <3>1 DEF WInv, Membership
    <3> QED
      BY <2>1, <3>1, <3>2 DEF Member
  <2>6. Watched'
    BY <2>1, <2>2 DEF WInv, WatchersOK, Watched
  <2> QED
    BY <2>3, <2>4, <2>5, <2>6 DEF WInv
<1> QED
  BY <1>1, <1>2

(***************************************************************************)
(* pd_watcher_create and pd_watcher_start.                                 *)
(***************************************************************************)
LEMMA CreateStep ==
  ASSUME WInv, NEW w \in Watchers, NEW f \in Fds, NEW ev \in Masks,
         NEW fault, fault # "second", Create(w, f, ev, fault)
  PROVE  WInv'
<1> DEFINE n == InitWatcher(open, regs, kq, w, f, ev, fault)
<1>0. ev \in SUBSET PdEvents
  BY KqueueAssumption
<1>1. /\ w \notin alive /\ w \notin stale
      /\ \A v \in alive \ stale : wfd[v] # f
  BY DEF Create, WInv, WatchersOK
<1>2. \A x \in Recs(regs) : x.watcher # w
  BY <1>1 DEF WInv, Recorded
<1>3. kq[f] = NoFilters /\ kq \in Queues /\ regs \in Seq(Records) /\ Keyed(regs)
  BY <1>1, Unwatched DEF WInv, WatchersOK, Recorded, Queues
<1>4. Registering(n, open, regs, kq, w, f, ev)
  BY <1>0, <1>1, <1>2, <1>3, Initialised
<1>5. /\ regs' = n.regs /\ kq' = n.kq
      /\ n.ok => /\ alive' = alive \cup {w}
                 /\ wfd' = [wfd EXCEPT ![w] = f]
                 /\ wev' = [wev EXCEPT ![w] = ev]
                 /\ active' = [active EXCEPT ![w] = TRUE]
                 /\ stale' = IF f \in open THEN stale ELSE stale \cup {w}
      /\ ~n.ok => UNCHANGED <<alive, wfd, wev, active, stale>>
      /\ open' = open
  BY DEF Create
<1> HIDE DEF n
<1> QED
  BY <1>0, <1>1, <1>2, <1>4, <1>5, RegisterStep

LEMMA StartStep ==
  ASSUME WInv, NEW w \in Watchers, NEW fault, fault # "second", Start(w, fault)
  PROVE  WInv'
<1> DEFINE n == Register(open, regs, kq, w, wfd[w], wev[w], fault)
<1>1. /\ w \in alive \ stale /\ ~active[w]
      /\ wfd[w] \in Fds /\ wfd[w] \in open /\ wev[w] \in SUBSET PdEvents
  BY DEF Start, WInv, WatchersOK, OneWatcher
<1>2. \A x \in Recs(regs) : x.watcher # w
  BY <1>1 DEF WInv, Recorded
<1>3. \A v \in alive \ stale : wfd[v] = wfd[w] => v = w /\ ~active[w]
  BY <1>1 DEF WInv, OneWatcher
<1>4. kq[wfd[w]] = NoFilters /\ kq \in Queues /\ regs \in Seq(Records) /\ Keyed(regs)
  BY <1>1, <1>3, Unwatched DEF WInv, WatchersOK, Recorded, Queues
<1>5. Registering(n, open, regs, kq, w, wfd[w], wev[w])
  BY <1>1, <1>2, <1>4, Registered
<1>6. /\ regs' = n.regs /\ kq' = n.kq
      /\ active' = [active EXCEPT ![w] = n.ok]
      /\ UNCHANGED <<open, alive, wfd, wev, stale>>
  BY DEF Start
<1> HIDE DEF n
<1>7. /\ alive' = alive \cup {w}
      /\ wfd' = [wfd EXCEPT ![w] = wfd[w]]
      /\ wev' = [wev EXCEPT ![w] = wev[w]]
  BY <1>1, <1>6 DEF WInv, WatchersOK
<1>8. /\ n.ok \in BOOLEAN
      /\ n.ok => active' = [active EXCEPT ![w] = TRUE]
      /\ ~n.ok => active' = active
  BY <1>1, <1>5, <1>6 DEF WInv, WatchersOK, Registering
<1> QED
  BY <1>1, <1>2, <1>3, <1>5, <1>6, <1>7, <1>8, RegisterStep

(***************************************************************************)
(* pd_watcher_stop and pd_watcher_destroy, which unregisters an active     *)
(* watcher once.                                                           *)
(***************************************************************************)
LEMMA StopStep ==
  ASSUME WInv, NEW w \in Watchers, Stop(w)
  PROVE  WInv'
<1> DEFINE n == Unregister(regs, kq, w, wfd[w], wev[w])
<1>1. /\ w \in alive /\ active[w]
      /\ regs' = n.regs /\ kq' = n.kq
      /\ active' = [active EXCEPT ![w] = FALSE]
      /\ UNCHANGED <<open, alive, wfd, wev, stale>>
  BY DEF Stop, StopWatcher
<1>2. /\ regs' \in Seq(Records) /\ Keyed(regs')
      /\ Recs(regs') = {x \in Recs(regs) : x.watcher # w}
      /\ kq' \in [Fds -> [Filters -> Entries \cup {NoEntry}]]
      /\ \A g \in Fds : kq'[g] = NoFilters \/ kq'[g] = kq[g]
      /\ \A g \in Fds, x \in Filters : kq'[g][x] # NoEntry => kq[g][x].udata # w
      /\ \A v \in alive \ stale : active[v] /\ v # w => kq'[wfd[v]] = kq[wfd[v]]
  <2>1. Released(n, w)
    BY <1>1, UnregisterStep
  <2> HIDE DEF n
  <2> QED
    BY <1>1, <2>1 DEF Released
<1> HIDE DEF n
<1>3. active'[w] = FALSE /\ \A v \in Watchers \ {w} : active'[v] = active[v]
  BY <1>1 DEF WInv, WatchersOK
<1>4. WatchersOK'
  BY <1>1, <1>2 DEF WInv, WatchersOK
<1>5. Recorded'
  BY <1>1, <1>2, <1>3 DEF WInv, WatchersOK, Recorded
<1>6. Membership'
  <2> SUFFICES ASSUME NEW g \in Fds, NEW x \in Filters, kq'[g][x] # NoEntry
               PROVE  Member(g, kq[g][x].udata)'
    BY DEF Membership
  <2>1. kq'[g] = kq[g] /\ kq[g][x].udata # w
    BY <1>2 DEF NoFilters
  <2>2. Member(g, kq[g][x].udata)
    BY <2>1 DEF WInv, Membership
  <2> QED
    BY <1>1, <1>2, <1>3, <2>1, <2>2 DEF Member, WInv, WatchersOK
<1>7. OneWatcher'
  BY <1>1 DEF WInv, OneWatcher
<1>8. Watched'
  <2> SUFFICES ASSUME NEW v \in alive \ stale, active'[v]
               PROVE  kq'[wfd[v]] = Wanted(v, wev[v])
    BY <1>1 DEF Watched
  <2>1. v # w /\ active[v]
    BY <1>3 DEF WInv, WatchersOK
  <2> QED
    BY <1>2, <2>1 DEF WInv, Watched
<1> QED
  BY <1>4, <1>5, <1>6, <1>7, <1>8 DEF WInv

LEMMA DestroyStep ==
  ASSUME WInv, NEW w \in Watchers, Destroy(w)
  PROVE  WInv'
<1> DEFINE n == StopWatcher(regs, kq, w, wfd[w], wev[w], active[w])
<1>0. AnyFd \in Fds
  BY KqueueAssumption DEF AnyFd
<1>1. /\ w \in alive
      /\ regs' = n.regs /\ kq' = n.kq
      /\ alive' = alive \ {w}
      /\ stale' = stale \ {w}
      /\ wfd' = [wfd EXCEPT ![w] = AnyFd]
      /\ wev' = [wev EXCEPT ![w] = {}]
      /\ active' = [active EXCEPT ![w] = FALSE]
      /\ open' = open
  BY DEF Destroy
<1>2. \/ n = Unregister(regs, kq, w, wfd[w], wev[w])
      \/ n = Done(TRUE, regs, kq) /\ ~active[w]
  BY DEF StopWatcher
<1> HIDE DEF n
<1>3. /\ regs' \in Seq(Records) /\ Keyed(regs')
      /\ Recs(regs') = {x \in Recs(regs) : x.watcher # w}
      /\ kq' \in [Fds -> [Filters -> Entries \cup {NoEntry}]]
      /\ \A g \in Fds : kq'[g] = NoFilters \/ kq'[g] = kq[g]
      /\ \A g \in Fds, x \in Filters : kq'[g][x] # NoEntry => kq[g][x].udata # w
      /\ \A v \in alive \ stale : active[v] /\ v # w => kq'[wfd[v]] = kq[wfd[v]]
  <2>1. Released(n, w)
    BY <1>1, <1>2, UnregisterStep
  <2> QED
    BY <1>1, <2>1 DEF Released
<1>4. \A v \in Watchers \ {w} :
        active'[v] = active[v] /\ wfd'[v] = wfd[v] /\ wev'[v] = wev[v]
  BY <1>1 DEF WInv, WatchersOK
<1>5. WatchersOK'
  <2>1. \A g \in Fds \ open' : kq'[g] = NoFilters
    BY <1>1, <1>3 DEF WInv, WatchersOK
  <2>2. wfd' \in [Watchers -> Fds] /\ wev' \in [Watchers -> SUBSET PdEvents]
    BY <1>0, <1>1 DEF WInv, WatchersOK
  <2>3. active' \in [Watchers -> BOOLEAN]
    BY <1>1 DEF WInv, WatchersOK
  <2> QED
    BY <1>1, <1>3, <2>1, <2>2, <2>3 DEF WInv, WatchersOK
<1>6. Recorded'
  BY <1>1, <1>3, <1>4 DEF WInv, WatchersOK, Recorded
<1>7. Membership'
  <2> SUFFICES ASSUME NEW g \in Fds, NEW x \in Filters, kq'[g][x] # NoEntry
               PROVE  Member(g, kq[g][x].udata)'
    BY DEF Membership
  <2>1. kq'[g] = kq[g] /\ kq[g][x].udata # w
    BY <1>3 DEF NoFilters
  <2>2. Member(g, kq[g][x].udata)
    BY <2>1 DEF WInv, Membership
  <2> QED
    BY <1>1, <1>3, <1>4, <2>1, <2>2 DEF Member, WInv, WatchersOK
<1>8. OneWatcher'
  BY <1>1, <1>4 DEF WInv, WatchersOK, OneWatcher
<1>9. Watched'
  <2> SUFFICES ASSUME NEW v \in alive' \ stale', active'[v]
               PROVE  kq'[wfd'[v]] = Wanted(v, wev'[v])
    BY DEF Watched
  <2>1. v # w /\ v \in alive \ stale /\ v \in Watchers
    BY <1>1 DEF WInv, WatchersOK
  <2> QED
    BY <1>3, <1>4, <2>1 DEF WInv, Watched
<1> QED
  BY <1>5, <1>6, <1>7, <1>8, <1>9 DEF WInv

(***************************************************************************)
(* pd_watcher_update: the backend finds the new mask on both sides of its  *)
(* comparison and changes no filter, which is right for a mask that asks   *)
(* for the same filters.                                                   *)
(***************************************************************************)
LEMMA UpdateStep ==
  ASSUME ~ChangeMask, WInv, NEW w \in Watchers, NEW ev \in Masks, Update(w, ev)
  PROVE  WInv'
<1>0. ev \in SUBSET PdEvents
  BY KqueueAssumption
<1>1. /\ w \in alive \ stale /\ active[w] /\ wfd[w] \in Fds
      /\ wev' = [wev EXCEPT ![w] = ev]
      /\ wev'[w] = ev
      /\ \A v \in Watchers : v # w => wev'[v] = wev[v]
      /\ UNCHANGED <<open, regs, alive, wfd, active, stale>>
      /\ ev \cap (Filters \cup {"EDGE"}) = wev[w] \cap (Filters \cup {"EDGE"})
  BY DEF Update, WInv, WatchersOK
<1>2. kq' = kq
  <2>1. kq' = AddFilters(DisableFilters(kq, wfd[w], {}), w, wfd[w], {}, ev)
    <3>1. kq' = Modify(kq, w, wfd[w], ev, ev)
      BY <1>1 DEF Update
    <3>2. (ev \ ev) \cap Filters = {}
      OBVIOUS
    <3> QED
      BY <3>1, <3>2 DEF Modify
  <2>2. ASSUME NEW k \in Queues, NEW g \in Fds, NEW v
        PROVE  AddFilters(k, v, g, {}, ev) = k /\ DisableFilters(k, g, {}) = k
    <3>1. [x \in Filters |-> k[g][x]] = k[g] /\ [k EXCEPT ![g] = k[g]] = k
      BY DEF Queues
    <3> QED
      BY <3>1 DEF AddFilters, DisableFilters
  <2>3. kq \in Queues
    BY DEF WInv, WatchersOK, Queues
  <2>4. DisableFilters(kq, wfd[w], {}) = kq /\ AddFilters(kq, w, wfd[w], {}, ev) = kq
    BY <1>1, <2>2, <2>3
  <2> QED
    BY <2>1, <2>4
<1>3. Wanted(w, ev) = Wanted(w, wev[w])
  <2>1. \A x \in Filters : x \in ev <=> x \in wev[w]
    BY <1>1
  <2>2. ("EDGE" \in ev) = ("EDGE" \in wev[w])
    BY <1>1
  <2> QED
    BY <2>1, <2>2 DEF Wanted
<1>4. WatchersOK'
  BY <1>0, <1>1, <1>2 DEF WInv, WatchersOK
<1>5. Recorded' /\ OneWatcher' /\ Membership'
  BY <1>1, <1>2 DEF WInv, Recorded, OneWatcher, Membership, Member
<1>6. Watched'
  BY <1>1, <1>2, <1>3 DEF WInv, WatchersOK, Watched
<1> QED
  BY <1>4, <1>5, <1>6 DEF WInv

(***************************************************************************)
(* The invariant of the watchers is inductive: timers and kqueue_loop_run  *)
(* change nothing of theirs.                                               *)
(***************************************************************************)
LEMMA WInvStep ==
  ASSUME Rules, WInv, [Next]_vars
  PROVE  WInv'
<1>1. ASSUME UNCHANGED wvars PROVE WInv'
  BY <1>1 DEF wvars, WInv, WatchersOK, Recorded, Membership, Member, OneWatcher, Watched
<1>2. ASSUME NEW t \in Timers,
             \/ TimerCreate(t)
             \/ \E fault \in (Faults \cap {"timer"}) \cup {"none"} : TimerStart(t, fault)
             \/ TimerStop(t) \/ TimerDestroy(t) \/ Expire(t)
      PROVE  WInv'
  BY <1>1, <1>2 DEF TimerCreate, TimerStart, TimerStop, TimerDestroy, Expire
<1>3. ASSUME NEW S, KeventWait(S) PROVE WInv'
  BY <1>1, <1>3 DEF KeventWait
<1>4. ASSUME NEW e \in batch, DispatchWatcher(e) \/ DispatchTimer(e) PROVE WInv'
  BY <1>1, <1>4 DEF DispatchWatcher, DispatchTimer
<1>5. CASE CallbackReturn \/ LoopReturn \/ UNCHANGED vars
  BY <1>1, <1>5 DEF CallbackReturn, LoopReturn, vars
<1>6. ASSUME NEW w \in Watchers, NEW f \in Fds, NEW ev \in Masks,
             NEW fault \in (Faults \ {"timer", "rearm"}) \cup {"none"},
             Create(w, f, ev, fault)
      PROVE  WInv'
  BY <1>6, CreateStep DEF Rules
<1>7. ASSUME NEW w \in Watchers,
             NEW fault \in (Faults \ {"list", "timer", "rearm"}) \cup {"none"},
             Start(w, fault)
      PROVE  WInv'
  BY <1>7, StartStep DEF Rules
<1>8. ASSUME NEW w \in Watchers,
             Stop(w) \/ (\E ev \in Masks : Update(w, ev)) \/ Destroy(w)
      PROVE  WInv'
  BY <1>8, StopStep, UpdateStep, DestroyStep DEF Rules
<1> QED
  BY <1>2, <1>3, <1>4, <1>5, <1>6, <1>7, <1>8, DescriptorStep DEF Next

LEMMA WInductive ==
  ASSUME Rules
  PROVE  Spec => []WInv
<1>1. Init => WInv
  <2> SUFFICES ASSUME Init PROVE WInv
    OBVIOUS
  <2>1. AnyFd \in Fds
    BY KqueueAssumption DEF AnyFd
  <2>2. NoFilters \in [Filters -> Entries \cup {NoEntry}]
    BY DEF NoFilters
  <2>3. WatchersOK
    BY <2>1, <2>2 DEF Init, WatchersOK
  <2>4. Recorded /\ Membership /\ OneWatcher /\ Watched
    BY NoRecords DEF Init, Recorded, Membership, OneWatcher, Watched, NoFilters
  <2> QED
    BY <2>3, <2>4 DEF WInv
<1>2. WInv /\ [Next]_vars => WInv'
  BY WInvStep
<1> QED
  BY <1>1, <1>2, PTL DEF Spec

-----------------------------------------------------------------------------
(* Theorems about the registrations *)

(***************************************************************************)
(* The queue holds exactly the filters that an active watcher asks for,    *)
(* under that watcher, until the application closes its descriptor.        *)
(***************************************************************************)
THEOREM ActiveIsWatched ==
  ASSUME Rules
  PROVE  Spec => []ActiveIsMember
<1>1. WInv => ActiveIsMember
  <2> SUFFICES ASSUME WInv, NEW w \in alive \ stale, active[w]
               PROVE  kq[wfd[w]] = AddFilters([f \in Fds |-> NoFilters], w, wfd[w],
                                              wev[w] \cap Filters, wev[w])[wfd[w]]
    BY DEF ActiveIsMember
  <2>1. w \in Watchers /\ wfd[w] \in Fds /\ wev[w] \in SUBSET PdEvents
    BY DEF WInv, WatchersOK
  <2>2. PICK k \in Queues : k = [f \in Fds |-> NoFilters]
    BY DEF Queues, NoFilters
  <2>3. k[wfd[w]] = NoFilters
    BY <2>1, <2>2
  <2>4. AddFilters(k, w, wfd[w], wev[w] \cap Filters, wev[w])
          = [k EXCEPT ![wfd[w]] = Wanted(w, wev[w])]
    BY <2>1, <2>3, FiltersAdded
  <2>5. AddFilters(k, w, wfd[w], wev[w] \cap Filters, wev[w])[wfd[w]] = Wanted(w, wev[w])
    BY <2>1, <2>4 DEF Queues
  <2> QED
    BY <2>2, <2>5 DEF WInv, Watched
<1> QED
  BY <1>1, WInductive, PTL

(***************************************************************************)
(* The queue never holds a pointer to a freed or stopped watcher, and the  *)
(* descriptor's one record names the watcher it points to.                 *)
(***************************************************************************)
THEOREM NothingDangles ==
  ASSUME Rules
  PROVE  Spec => []NoDanglingEntry
<1>1. WInv => NoDanglingEntry
  <2> SUFFICES ASSUME WInv, NEW f \in Fds, NEW x \in Filters, kq[f][x] # NoEntry
               PROVE  LET w == kq[f][x].udata
                      IN  /\ w \in alive /\ active[w] /\ wfd[w] = f
                          /\ \E i \in DOMAIN regs :
                               /\ regs[i] = [fd |-> f, watcher |-> w]
                               /\ \A j \in DOMAIN regs \ {i} : regs[j].fd # f
    BY DEF NoDanglingEntry
  <2> DEFINE w == kq[f][x].udata
  <2>1. Member(f, w) /\ Keyed(regs)
    BY DEF WInv, Membership, Recorded
  <2> HIDE DEF w
  <2>2. PICK i \in DOMAIN regs : regs[i] = [fd |-> f, watcher |-> w]
    BY <2>1 DEF Member, Recs
  <2>3. \A j \in DOMAIN regs \ {i} : regs[j].fd # f
    BY <2>1, <2>2 DEF Keyed
  <2> QED
    BY <2>1, <2>2, <2>3 DEF Member, w
<1> QED
  BY <1>1, WInductive, PTL


-----------------------------------------------------------------------------
(* Timers, and what a batch holds *)

(***************************************************************************)
(* What kevent reports is an expired timer, or a filter in the queue.      *)
(***************************************************************************)
LEMMA ReadyEvents ==
  ASSUME NEW e \in Ready
  PROVE  /\ e.flags \subseteq Flags
         /\ \/ e.kind = "TIMER" /\ e.ptr \in expired /\ e.ident = e.ptr
            \/ /\ e.kind \in Filters /\ e.ident \in Fds
               /\ kq[e.ident][e.kind] # NoEntry
               /\ e.ptr = kq[e.ident][e.kind].udata
BY DEF Ready

(***************************************************************************)
(* A filter that kevent reports is one that its active watcher asks for.   *)
(***************************************************************************)
LEMMA ReadyIsWatched ==
  ASSUME WInv, NEW e \in Ready, e.kind # "TIMER"
  PROVE  /\ e.kind \in Filters
         /\ e.ptr \in alive /\ e.ptr \in Watchers
         /\ active[e.ptr]
         /\ e.kind \in wev[e.ptr]
<1> DEFINE f == e.ident
           w == e.ptr
<1>1. e.kind \in Filters /\ f \in Fds /\ kq[f][e.kind] # NoEntry /\ w = kq[f][e.kind].udata
  BY ReadyEvents
<1>2. Member(f, w)
  BY <1>1 DEF WInv, Membership
<1>3. w \in alive \ stale /\ w \in Watchers /\ active[w] /\ wfd[w] = f /\ wev[w] \in SUBSET PdEvents
  BY <1>2 DEF Member, WInv, WatchersOK
<1>4. kq[f] = Wanted(w, wev[w])
  BY <1>3 DEF WInv, Watched
<1> HIDE DEF f, w
<1>5. Wanted(w, wev[w])[e.kind] # NoEntry
  BY <1>1, <1>4
<1>6. e.kind \in wev[w]
  BY <1>1, <1>3, <1>5, WantedType
<1> QED
  BY <1>1, <1>3, <1>6 DEF w

LEMMA LoopOKStep ==
  ASSUME "rearm" \notin Faults, WInv, LoopOK, [Next]_vars
  PROVE  LoopOK'
<1>1. ASSUME UNCHANGED <<tvars, lvars>> PROVE LoopOK'
  BY <1>1 DEF tvars, lvars, LoopOK
<1>2. ASSUME NEW f \in Fds, OpenFd(f) \/ CloseFd(f) PROVE LoopOK'
  BY <1>1, <1>2 DEF OpenFd, CloseFd
<1>3. ASSUME NEW w \in Watchers,
             \/ \E f \in Fds, ev \in Masks : \E fault : Create(w, f, ev, fault)
             \/ \E fault : Start(w, fault)
             \/ Stop(w)
             \/ \E ev \in Masks : Update(w, ev)
             \/ Destroy(w)
      PROVE  LoopOK'
  BY <1>1, <1>3 DEF Create, Start, Stop, Update, Destroy
<1>4. ASSUME NEW t \in Timers,
             \/ TimerCreate(t) \/ (\E fault : TimerStart(t, fault))
             \/ TimerStop(t) \/ TimerDestroy(t) \/ Expire(t)
      PROVE  LoopOK'
  <2>1. UNCHANGED lvars
    BY <1>4 DEF TimerCreate, TimerStart, TimerStop, TimerDestroy, Expire
  <2>2. /\ tlive' \subseteq Timers /\ tactive' \subseteq tlive'
        /\ initial' \subseteq TwoPhase \cap tlive'
    BY <1>4 DEF TimerCreate, TimerStart, TimerStop, TimerDestroy, Expire, Disarm, LoopOK
  <2>3. /\ ktimer' \in [Timers -> {"none", "oneshot", "periodic"}]
        /\ expired' \subseteq {u \in Timers : ktimer'[u] # "none"}
    BY <1>4 DEF TimerCreate, TimerStart, TimerStop, TimerDestroy, Expire, Disarm, LoopOK
  <2> QED
    BY <2>1, <2>2, <2>3 DEF lvars, LoopOK
<1>5. ASSUME NEW S \in Batches, KeventWait(S) PROVE LoopOK'
  <2>1. S \subseteq Ready
    BY DEF Batches
  <2>2. \A e \in batch' : /\ e.kind \in Filters \cup {"TIMER"}
                          /\ e.ptr \in Watchers \cup Timers
                          /\ e.flags \subseteq Flags
    <3> SUFFICES ASSUME NEW e \in Ready
                 PROVE  /\ e.kind \in Filters \cup {"TIMER"}
                        /\ e.ptr \in Watchers \cup Timers
                        /\ e.flags \subseteq Flags
      BY <1>5, <2>1 DEF KeventWait
    <3>1. CASE e.kind = "TIMER"
      <4>1. e.flags \subseteq Flags /\ e.ptr \in expired
        BY <3>1, ReadyEvents DEF Filters
      <4> QED
        BY <3>1, <4>1 DEF LoopOK
    <3>2. CASE e.kind # "TIMER"
      <4>1. e.flags \subseteq Flags
        BY ReadyEvents
      <4> QED
        BY <3>2, <4>1, ReadyIsWatched
    <3> QED
      BY <3>1, <3>2
  <2>3. /\ ktimer' \in [Timers -> {"none", "oneshot", "periodic"}]
        /\ expired' \subseteq {u \in Timers : ktimer'[u] # "none"}
    BY <1>5 DEF KeventWait, LoopOK
  <2>4. lpc' = "dispatch" /\ UNCHANGED <<tlive, tactive, initial, cb>>
    BY <1>5 DEF KeventWait
  <2> QED
    BY <2>2, <2>3, <2>4 DEF LoopOK
<1>6. ASSUME NEW e \in batch, DispatchWatcher(e) PROVE LoopOK'
  <2>1. e.kind \in Filters /\ KeventToEvents(e) \in SUBSET PdEvents
    BY <1>6 DEF DispatchWatcher, LoopOK, KeventToEvents, Filters, PdEvents
  <2> QED
    BY <1>6, <2>1 DEF DispatchWatcher, LoopOK, tvars
<1>7. ASSUME NEW e \in batch, DispatchTimer(e) PROVE LoopOK'
  <2>1. /\ batch' = batch \ {e} /\ initial' = initial \ {e.ptr}
        /\ ktimer' = IF e.ptr \in initial THEN [ktimer EXCEPT ![e.ptr] = "periodic"]
                                          ELSE ktimer
        /\ lpc' = "callback" /\ cb' = [ptr |-> e.ptr, events |-> {"READ"}]
        /\ UNCHANGED <<tlive, tactive, expired>>
    BY <1>7 DEF DispatchTimer
  <2>2. cb' \in [ptr : Watchers \cup Timers \cup {Nobody}, events : SUBSET PdEvents]
    BY <2>1 DEF LoopOK, PdEvents, Filters
  <2> QED
    BY <2>1, <2>2 DEF LoopOK
<1>8. CASE CallbackReturn \/ LoopReturn
  BY <1>8 DEF CallbackReturn, LoopReturn, LoopOK, tvars, NoCb
<1>9. CASE UNCHANGED vars
  BY <1>1, <1>9 DEF vars
<1> QED
  BY <1>2, <1>3, <1>4, <1>5, <1>6, <1>7, <1>8, <1>9 DEF Next

(***************************************************************************)
(* The steps of the application: callbacks leave alone the timers and the  *)
(* watchers whose events are waiting in the batch.                         *)
(***************************************************************************)
LEMMA WatcherCalls ==
  ASSUME ~SameBatch, WInv, LInv, NEW w \in Watchers,
         \/ \E f \in Fds, ev \in Masks : \E fault : Create(w, f, ev, fault)
         \/ \E fault : Start(w, fault)
         \/ Stop(w)
         \/ \E ev \in Masks : Update(w, ev)
         \/ Destroy(w)
  PROVE  Dispatching' /\ StartedIsPending'
<1>1. UNCHANGED <<tvars, lvars>>
  BY DEF Create, Start, Stop, Update, Destroy
<1>2. \A v \in Watchers : v # w =>
        (v \in alive => v \in alive') /\ active'[v] = active[v] /\ wev'[v] = wev[v]
  BY DEF Create, Start, Stop, Update, Destroy, WInv, WatchersOK
<1>3. \A e \in batch : e.kind # "TIMER" => e.ptr # w /\ e.ptr \in Watchers
  BY DEF Create, Start, Stop, Update, Destroy, MayTouch, LInv, Dispatching,
         WInv, WatchersOK
<1>4. Dispatching'
  BY <1>1, <1>2, <1>3 DEF LInv, Dispatching, tvars, lvars
<1>5. StartedIsPending'
  BY <1>1 DEF LInv, StartedIsPending, tvars, lvars
<1> QED
  BY <1>4, <1>5

LEMMA TimerCalls ==
  ASSUME ~SameBatch, LInv, NEW t \in Timers,
         \/ TimerCreate(t) \/ (\E fault : TimerStart(t, fault))
         \/ TimerStop(t) \/ TimerDestroy(t) \/ Expire(t)
  PROVE  Dispatching' /\ StartedIsPending'
<1>1. UNCHANGED <<alive, active, wev, lvars>>
  BY DEF TimerCreate, TimerStart, TimerStop, TimerDestroy, Expire, wvars
<1>2. CASE TimerCreate(t) \/ Expire(t)
  <2>1. UNCHANGED <<tactive, initial, ktimer>>
    BY <1>2 DEF TimerCreate, Expire
  <2> QED
    BY <1>1, <2>1 DEF LInv, Dispatching, StartedIsPending, lvars
<1>3. CASE (\E fault : TimerStart(t, fault)) \/ TimerStop(t) \/ TimerDestroy(t)
  <2>1. \A e \in batch : e.ptr # t
    BY <1>3 DEF TimerStart, TimerStop, TimerDestroy, MayTouch
  <2>2. \A u \in Timers : u # t => /\ u \in tactive' <=> u \in tactive
                                   /\ u \in initial' <=> u \in initial
                                   /\ ktimer'[u] = ktimer[u]
    BY <1>3 DEF TimerStart, TimerStop, TimerDestroy, Disarm, LInv, LoopOK
  <2>3. IF t \in tactive'
          THEN ktimer'[t] # "none" /\ (t \in initial' <=> ktimer'[t] # "periodic")
          ELSE ktimer'[t] = "none"
    BY <1>3 DEF TimerStart, TimerStop, TimerDestroy, Disarm, LInv, LoopOK,
                StartedIsPending
  <2>4. tactive' \subseteq Timers /\ tactive \subseteq Timers
    BY <1>3 DEF TimerStart, TimerStop, TimerDestroy, Disarm, LInv, LoopOK
  <2>5. Dispatching'
    BY <1>1, <2>1, <2>2, <2>4 DEF LInv, Dispatching, lvars
  <2>6. StartedIsPending'
    BY <1>1, <2>2, <2>3, <2>4 DEF LInv, StartedIsPending, lvars
  <2> QED
    BY <2>5, <2>6
<1> QED
  BY <1>2, <1>3

(***************************************************************************)
(* kevent: what it reports is active, and a timer that leaves the queue    *)
(* with its event is in the batch.                                         *)
(***************************************************************************)
LEMMA WaitCall ==
  ASSUME WInv, LInv, lpc = "out", NEW S \in Batches, KeventWait(S)
  PROVE  Dispatching' /\ StartedIsPending'
<1> DEFINE fired == {e.ptr : e \in {d \in S : d.kind = "TIMER"}}
<1>1. /\ batch' = S /\ lpc' = "dispatch"
      /\ ktimer' = [t \in Timers |-> IF t \in fired /\ ktimer[t] = "oneshot"
                                       THEN "none" ELSE ktimer[t]]
      /\ UNCHANGED <<alive, active, wev, tactive, initial, cb>>
  BY DEF KeventWait, wvars
<1>2. /\ batch = {} /\ cb = NoCb
      /\ \A t \in tactive : t \in Timers /\ ktimer[t] # "none"
  BY DEF LInv, LoopOK, Dispatching, StartedIsPending
<1>3. ASSUME NEW e \in S, e.kind = "TIMER"
      PROVE  e.ptr \in tactive /\ e.ptr \in Timers /\ e.ident = e.ptr
  <2>1. e \in Ready /\ "TIMER" \notin Filters
    BY DEF Batches, Filters
  <2>2. e.ptr \in expired /\ e.ident = e.ptr
    BY <1>3, <2>1, ReadyEvents
  <2> QED
    BY <2>2 DEF LInv, LoopOK, StartedIsPending
<1>4. ASSUME NEW e \in S, e.kind # "TIMER"
      PROVE  e.ptr \in Watchers /\ e.ptr \in alive /\ active[e.ptr] /\ e.kind \in wev[e.ptr]
  <2>1. e \in Ready
    BY DEF Batches
  <2> QED
    BY <1>4, <2>1, ReadyIsWatched
<1>5. \A d, e \in S : d.kind = "TIMER" /\ d.ptr = e.ptr => d = e
  <2> SUFFICES ASSUME NEW d \in S, NEW e \in S, d.kind = "TIMER", d.ptr = e.ptr
               PROVE  d = e
    OBVIOUS
  <2>1. e.kind = "TIMER"
    BY <1>3, <1>4, KqueueAssumption
  <2>2. d.ident = e.ident
    BY <1>3, <2>1
  <2> QED
    BY <2>1, <2>2 DEF Batches
<1> HIDE DEF fired
<1>6. Dispatching'
  BY <1>1, <1>2, <1>3, <1>4, <1>5 DEF Dispatching, NoCb
<1>7. \A t \in Timers : t \in fired => \E e \in batch' : e.ptr = t
  BY <1>1 DEF fired
<1>8. \A t \in Timers : ktimer'[t] = IF t \in fired /\ ktimer[t] = "oneshot"
                                       THEN "none" ELSE ktimer[t]
  BY <1>1
<1>9. StartedIsPending'
  BY <1>1, <1>2, <1>7, <1>8 DEF LInv, StartedIsPending
<1> QED
  BY <1>6, <1>9

(***************************************************************************)
(* The dispatch of one event: a timer in its one-shot phase is periodic    *)
(* before its entry is gone.                                               *)
(***************************************************************************)
LEMMA DispatchCalls ==
  ASSUME "rearm" \notin Faults, WInv, LInv, NEW e \in batch,
         DispatchWatcher(e) \/ DispatchTimer(e)
  PROVE  Dispatching' /\ StartedIsPending'
<1>1. CASE DispatchWatcher(e)
  <2>1. /\ lpc = "dispatch" /\ e.kind # "TIMER" /\ batch' = batch \ {e}
        /\ UNCHANGED <<alive, active, wev, tactive, initial, ktimer>>
        /\ IF e.ptr \in NoCallback
             THEN UNCHANGED <<lpc, cb>>
             ELSE lpc' = "callback" /\ cb' = [ptr |-> e.ptr, events |-> KeventToEvents(e)]
    BY <1>1 DEF DispatchWatcher, wvars, tvars
  <2>2. e.ptr \in Watchers
    BY <2>1 DEF LInv, Dispatching, WInv, WatchersOK
  <2>3. e.ptr \notin Timers /\ e.ptr # Nobody
    BY <2>2, KqueueAssumption
  <2>4. Dispatching'
    BY <2>1, <2>3 DEF LInv, Dispatching
  <2>5. \A t \in tactive : t # e.ptr
    BY <2>3 DEF LInv, LoopOK
  <2>6. StartedIsPending'
    BY <2>1, <2>5 DEF LInv, StartedIsPending
  <2> QED
    BY <2>4, <2>6
<1>2. CASE DispatchTimer(e)
  <2>1. /\ lpc = "dispatch" /\ e.kind = "TIMER" /\ batch' = batch \ {e}
        /\ initial' = initial \ {e.ptr}
        /\ ktimer' = IF e.ptr \in initial THEN [ktimer EXCEPT ![e.ptr] = "periodic"]
                                          ELSE ktimer
        /\ lpc' = "callback" /\ cb' = [ptr |-> e.ptr, events |-> {"READ"}]
        /\ UNCHANGED <<alive, active, wev, tactive>>
    BY <1>2 DEF DispatchTimer, wvars
  <2>2. e.ptr \in tactive /\ e.ptr \in Timers /\ tactive \subseteq Timers
    BY <2>1 DEF LInv, Dispatching, LoopOK
  <2>3. e.ptr # Nobody
    BY <2>2, KqueueAssumption
  <2>4. Dispatching'
    BY <2>1, <2>3 DEF LInv, Dispatching
  <2>5. ktimer'[e.ptr] = "periodic" /\ e.ptr \notin initial'
    BY <2>1, <2>2 DEF LInv, LoopOK, StartedIsPending
  <2>6. \A t \in Timers : t # e.ptr =>
          ktimer'[t] = ktimer[t] /\ (t \in initial' <=> t \in initial)
    BY <2>1, <2>2 DEF LInv, LoopOK
  <2>7. \A t \in tactive : t # e.ptr /\ (\E d \in batch : d.ptr = t)
                             => \E d \in batch' : d.ptr = t
    BY <2>1
  <2>8. StartedIsPending'
    <3>1. ASSUME NEW t \in tactive'
          PROVE  /\ ktimer'[t] = "none" => \E d \in batch' : d.ptr = t
                 /\ t \in initial' <=> ktimer'[t] # "periodic"
      BY <2>1, <2>2, <2>5, <2>6, <2>7, <3>1 DEF LInv, StartedIsPending
    <3>2. \A t \in Timers \ tactive' : ktimer'[t] = "none"
      BY <2>1, <2>2, <2>6 DEF LInv, StartedIsPending
    <3> QED
      BY <3>1, <3>2 DEF StartedIsPending
  <2> QED
    BY <2>4, <2>8
<1> QED
  BY <1>1, <1>2

LEMMA LInvStep ==
  ASSUME "rearm" \notin Faults, ~SameBatch, WInv, LInv, [Next]_vars
  PROVE  LInv'
<1>1. LoopOK'
  BY LoopOKStep DEF LInv
<1>2. ASSUME NEW f \in Fds, OpenFd(f) \/ CloseFd(f)
      PROVE  Dispatching' /\ StartedIsPending'
  <2>1. UNCHANGED <<alive, active, wev, tvars, lvars>>
    BY <1>2 DEF OpenFd, CloseFd
  <2> QED
    BY <2>1 DEF LInv, Dispatching, StartedIsPending, tvars, lvars
<1>3. CASE CallbackReturn \/ LoopReturn
  <2>1. /\ batch' = batch
        /\ UNCHANGED <<alive, active, wev, tactive, initial, ktimer>>
    BY <1>3 DEF CallbackReturn, LoopReturn, wvars, tvars
  <2>2. Dispatching'
    BY <1>3, <2>1 DEF CallbackReturn, LoopReturn, LInv, Dispatching, NoCb
  <2>3. StartedIsPending'
    BY <2>1 DEF LInv, StartedIsPending
  <2> QED
    BY <1>1, <2>2, <2>3 DEF LInv
<1>4. CASE UNCHANGED vars
  BY <1>1, <1>4 DEF LInv, Dispatching, StartedIsPending, vars, wvars, tvars, lvars
<1> QED
  BY <1>1, <1>2, <1>3, <1>4, WatcherCalls, TimerCalls, WaitCall, DispatchCalls
     DEF Next, LInv


-----------------------------------------------------------------------------
(* Theorems about timers and dispatch *)

(***************************************************************************)
(* Records, filters and batch name known objects, a closed descriptor has  *)
(* no filters, and nothing of a destroyed timer is left.                   *)
(***************************************************************************)
THEOREM TypeCorrect ==
  ASSUME Rules, "rearm" \notin Faults
  PROVE  Spec => []KqueueTypeOK
<1>1. Init => LoopOK
  BY DEF Init, LoopOK, NoCb
<1>2. WInv /\ LoopOK /\ [Next]_vars => LoopOK'
  BY LoopOKStep
<1>3. WInv /\ LoopOK => KqueueTypeOK
  BY DEF WInv, WatchersOK, LoopOK, KqueueTypeOK
<1> QED
  BY <1>1, <1>2, <1>3, WInductive, PTL DEF Spec

LEMMA LInductive ==
  ASSUME Rules, "rearm" \notin Faults, ~SameBatch
  PROVE  Spec => []LInv
<1>1. Init => LInv
  BY DEF Init, LInv, LoopOK, Dispatching, StartedIsPending, NoCb
<1>2. WInv /\ LInv /\ [Next]_vars => LInv'
  BY LInvStep
<1> QED
  BY <1>1, <1>2, WInductive, PTL DEF Spec

(***************************************************************************)
(* A started timer stays in the queue until it is stopped, but for the     *)
(* time between the report of its one-shot phase and its dispatch, and a   *)
(* timer that was stopped or destroyed is not in the queue.                *)
(***************************************************************************)
THEOREM TimerIsPending ==
  ASSUME Rules, "rearm" \notin Faults, ~SameBatch
  PROVE  Spec => []StartedIsPending
<1>1. LInv => StartedIsPending
  BY DEF LInv
<1> QED
  BY <1>1, LInductive, PTL

-----------------------------------------------------------------------------
(* The contract of poll-dancer.h *)

\* The state of each watcher and the running callback, as the contract sees
\* them
Status == [w \in Watchers |-> IF w \notin alive THEN "none"
                             ELSE IF active[w] THEN "watching" ELSE "stopped"]

Running == IF cb.ptr \in Watchers THEN [w |-> cb.ptr, events |-> cb.events]
                                  ELSE [w |-> Nobody, events |-> {}]

(***************************************************************************)
(* Every step is a step of the contract, or one that an application does   *)
(* not see of its watchers: failed calls, descriptors, timers, the wait.   *)
(***************************************************************************)
LEMMA ContractStep ==
  ASSUME WInv, LInv, [Next]_vars
  PROVE  [Contract!Next]_(Contract!cvars)
<1> DEFINE Same == Status' = Status /\ wev' = wev /\ Running' = Running
<1>0. ASSUME Same PROVE [Contract!Next]_(Contract!cvars)
  BY <1>0 DEF Contract!cvars, Status, Running
<1>1. ASSUME UNCHANGED <<alive, active, wev, cb>>
      PROVE  [Contract!Next]_(Contract!cvars)
  BY <1>0, <1>1 DEF Status, Running
<1>2. ASSUME NEW w \in Watchers, NEW f \in Fds, NEW ev \in Masks, NEW fault,
             Create(w, f, ev, fault)
      PROVE  [Contract!Next]_(Contract!cvars)
  <2> DEFINE n == InitWatcher(open, regs, kq, w, f, ev, fault)
  <2>1. /\ w \notin alive
        /\ IF n.ok THEN /\ alive' = alive \cup {w}
                        /\ wev' = [wev EXCEPT ![w] = ev]
                        /\ active' = [active EXCEPT ![w] = TRUE]
                   ELSE UNCHANGED <<alive, wev, active>>
        /\ cb' = cb
    BY <1>2 DEF Create, lvars
  <2> HIDE DEF n
  <2>2. CASE n.ok
    <3>1. Status[w] = "none" /\ Status' = [Status EXCEPT ![w] = "watching"]
      BY <2>1, <2>2 DEF Status, WInv, WatchersOK
    <3>2. Contract!Create(w, ev)
      BY <2>1, <2>2, <3>1 DEF Contract!Create, Contract!Becomes, Status
    <3> QED
      BY <3>2 DEF Contract!Next
  <2>3. CASE ~n.ok
    BY <1>1, <2>1, <2>3
  <2> QED
    BY <2>2, <2>3
<1>3. ASSUME NEW w \in Watchers, NEW fault, Start(w, fault)
      PROVE  [Contract!Next]_(Contract!cvars)
  <2> DEFINE n == Register(open, regs, kq, w, wfd[w], wev[w], fault)
  <2>1. /\ w \in alive /\ ~active[w]
        /\ active' = [active EXCEPT ![w] = n.ok]
        /\ UNCHANGED <<alive, wev, cb>>
    BY <1>3 DEF Start, lvars
  <2> HIDE DEF n
  <2>2. CASE n.ok
    <3>1. Status[w] = "stopped" /\ Status' = [Status EXCEPT ![w] = "watching"]
      BY <2>1, <2>2 DEF Status, WInv, WatchersOK
    <3>2. Contract!Start(w)
      BY <2>1, <3>1 DEF Contract!Start, Contract!Becomes, Status
    <3> QED
      BY <3>2 DEF Contract!Next
  <2>3. CASE ~n.ok
    <3>1. Status' = Status /\ Running' = Running
      BY <2>1, <2>3 DEF Status, Running, WInv, WatchersOK
    <3> QED
      BY <1>0, <2>1, <3>1
  <2> QED
    BY <2>2, <2>3
<1>4. ASSUME NEW w \in Watchers, Stop(w)
      PROVE  [Contract!Next]_(Contract!cvars)
  <2>1. /\ w \in alive /\ active[w]
        /\ active' = [active EXCEPT ![w] = FALSE]
        /\ UNCHANGED <<alive, wev, cb>>
    BY <1>4 DEF Stop, lvars
  <2>2. Status[w] = "watching" /\ Status' = [Status EXCEPT ![w] = "stopped"]
    BY <2>1 DEF Status, WInv, WatchersOK
  <2>3. Contract!Stop(w)
    BY <2>1, <2>2 DEF Contract!Stop, Contract!Becomes, Status
  <2> QED
    BY <2>3 DEF Contract!Next
<1>5. ASSUME NEW w \in Watchers, NEW ev \in Masks, Update(w, ev)
      PROVE  [Contract!Next]_(Contract!cvars)
  <2>1. /\ w \in alive /\ active[w]
        /\ wev' = [wev EXCEPT ![w] = ev]
        /\ UNCHANGED <<alive, active, cb>>
    BY <1>5 DEF Update, lvars
  <2>2. Status[w] = "watching" /\ Status' = Status
    BY <2>1 DEF Status
  <2>3. Contract!Update(w, ev)
    BY <2>1, <2>2 DEF Contract!Update, Status
  <2> QED
    BY <2>3 DEF Contract!Next
<1>6. ASSUME NEW w \in Watchers, Destroy(w)
      PROVE  [Contract!Next]_(Contract!cvars)
  <2>1. /\ w \in alive /\ alive' = alive \ {w}
        /\ wev' = [wev EXCEPT ![w] = {}]
        /\ active' = [active EXCEPT ![w] = FALSE]
        /\ cb' = cb
    BY <1>6 DEF Destroy, lvars
  <2>2. Status[w] # "none" /\ Status' = [Status EXCEPT ![w] = "none"]
    BY <2>1 DEF WInv, WatchersOK, Status
  <2>3. Contract!Destroy(w)
    BY <2>1, <2>2 DEF Contract!Destroy, Contract!Becomes, Status
  <2> QED
    BY <2>3 DEF Contract!Next
<1>7. ASSUME NEW e \in batch, DispatchWatcher(e)
      PROVE  [Contract!Next]_(Contract!cvars)
  <2>1. UNCHANGED <<alive, active, wev>> /\ Status' = Status /\ lpc = "dispatch"
    BY <1>7 DEF DispatchWatcher, wvars, Status
  <2>2. CASE cb' = cb
    BY <1>1, <2>1, <2>2
  <2>3. CASE cb' # cb
    <3> DEFINE w == e.ptr
    <3>1. cb' = [ptr |-> w, events |-> KeventToEvents(e)] /\ e.kind # "TIMER"
      BY <1>7, <2>3 DEF DispatchWatcher
    <3>2. w \in alive /\ w \in Watchers /\ active[w] /\ e.kind \in wev[w] /\ cb = NoCb
      BY <2>1, <3>1 DEF LInv, Dispatching, WInv, WatchersOK
    <3>3. Status[w] = "watching"
      BY <3>2 DEF Status
    <3>4. /\ KeventToEvents(e) # {}
          /\ KeventToEvents(e) \subseteq wev[w] \cup {"ERROR", "HANGUP"}
      BY <3>2 DEF KeventToEvents
    <3>5. Running = [w |-> Nobody, events |-> {}]
      BY <3>2, KqueueAssumption DEF Running, NoCb
    <3>6. Running' = [w |-> w, events |-> KeventToEvents(e)]
      BY <3>1, <3>2 DEF Running
    <3>7. Contract!Deliver(w)
      BY <2>1, <3>3, <3>4, <3>5, <3>6
         DEF Contract!Deliver, Contract!Quiet, Status, Running
    <3> QED
      BY <3>2, <3>7 DEF Contract!Next
  <2> QED
    BY <2>2, <2>3
<1>8. ASSUME NEW e \in batch, DispatchTimer(e)
      PROVE  [Contract!Next]_(Contract!cvars)
  <2>1. /\ UNCHANGED <<alive, active, wev>> /\ lpc = "dispatch"
        /\ e.kind = "TIMER" /\ cb'.ptr = e.ptr
    BY <1>8 DEF DispatchTimer, wvars
  <2>2. cb = NoCb /\ cb'.ptr \notin Watchers
    BY <2>1, KqueueAssumption DEF LInv, Dispatching, LoopOK
  <2>3. Running' = Running
    BY <2>2, KqueueAssumption DEF Running, NoCb
  <2> QED
    BY <1>0, <2>1, <2>3 DEF Status
<1>9. CASE CallbackReturn
  <2>1. /\ cb' = NoCb /\ UNCHANGED <<alive, active, wev>>
    BY <1>9 DEF CallbackReturn, wvars
  <2>2. Running' = [w |-> Nobody, events |-> {}] /\ Status' = Status
    BY <2>1, KqueueAssumption DEF Running, NoCb, Status
  <2>3. CASE Running = [w |-> Nobody, events |-> {}]
    BY <1>0, <2>1, <2>2, <2>3
  <2>4. CASE Running # [w |-> Nobody, events |-> {}]
    <3>1. Contract!Return
      BY <2>1, <2>2, <2>4 DEF Contract!Return, Contract!Quiet, Running, Status
    <3> QED
      BY <3>1 DEF Contract!Next
  <2> QED
    BY <2>3, <2>4
<1>10. ASSUME NEW S, KeventWait(S) PROVE [Contract!Next]_(Contract!cvars)
  BY <1>1, <1>10 DEF KeventWait, wvars
<1>11. CASE LoopReturn \/ UNCHANGED vars
  BY <1>1, <1>11 DEF LoopReturn, vars, wvars, lvars
<1>12. ASSUME NEW f \in Fds, OpenFd(f) \/ CloseFd(f)
       PROVE  [Contract!Next]_(Contract!cvars)
  BY <1>1, <1>12 DEF OpenFd, CloseFd, lvars
<1>13. ASSUME NEW t \in Timers,
              \/ TimerCreate(t) \/ (\E fault : TimerStart(t, fault))
              \/ TimerStop(t) \/ TimerDestroy(t) \/ Expire(t)
       PROVE  [Contract!Next]_(Contract!cvars)
  BY <1>1, <1>13
     DEF TimerCreate, TimerStart, TimerStop, TimerDestroy, Expire, wvars, lvars
<1> QED
  BY <1>2, <1>3, <1>4, <1>5, <1>6, <1>7, <1>8, <1>9, <1>10, <1>11, <1>12, <1>13
     DEF Next

(***************************************************************************)
(* The watchers over kqueue implement the contract of poll-dancer.h, as    *)
(* long as callbacks leave alone the objects whose event is waiting in the *)
(* same batch.                                                             *)
(***************************************************************************)
THEOREM Refinement ==
  ASSUME Rules, "rearm" \notin Faults, ~SameBatch
  PROVE  Spec => ImplementsContract
<1>1. Init => Contract!Init
  BY KqueueAssumption DEF Init, NoCb, Contract!Init, Contract!Quiet
<1>2. WInv /\ LInv /\ [Next]_vars => [Contract!Next]_(Contract!cvars)
  BY ContractStep
<1> QED
  BY <1>1, <1>2, WInductive, LInductive, PTL
     DEF Spec, ImplementsContract, Contract!Spec

=============================================================================
