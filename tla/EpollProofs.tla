----------------------------- MODULE EpollProofs -----------------------------
(***************************************************************************)
(* Proofs about Epoll for any number of watchers and descriptors, any      *)
(* masks, batches of any size and every fault.  They are about the use     *)
(* that the library can support: malloc does not hand out again the        *)
(* address of a watcher that was torn down stale (run EpollAddrReuse says  *)
(* what happens when it does), no two watchers share a descriptor, and a   *)
(* watcher whose descriptor is closed is only stopped or destroyed.  The   *)
(* application may close a descriptor under its watcher and open the same  *)
(* number again at any time.                                               *)
(***************************************************************************)
EXTENDS Epoll, RegistrationsProofs, FiniteSetTheorems

\* How the application and the allocator behave
Rules == ~ReuseAddr /\ ~ShareFd /\ ~StaleUse

-----------------------------------------------------------------------------
(* The inductive invariant *)

\* The descriptor and the watcher are keys of the records.  The record of a
\* live watcher is its own; that of a dead one was left by a stale teardown.
Recorded ==
  /\ Keyed(regs)
  /\ \A x \in Recs(regs) :
       IF x.watcher \in alive
         THEN active[x.watcher] /\ wfd[x.watcher] = x.fd
         ELSE x.watcher \in tainted

\* A member of the kernel's set belongs to an active watcher of that very
\* descriptor, and has its record.
Member(f, e) ==
  /\ e.ptr \in alive \ stale
  /\ active[e.ptr]
  /\ wfd[e.ptr] = f
  /\ [fd |-> f, watcher |-> e.ptr] \in Recs(regs)

Membership == \A f \in Fds : mem[f] # NoEntry => Member(f, mem[f])

\* A watcher has a descriptor of its own and it is open, unless the watcher is
\* stale.
OneWatcher ==
  \A v \in alive \ stale :
    /\ wfd[v] \in open
    /\ \A w \in alive \ stale : wfd[v] = wfd[w] => v = w

EInv == EpollTypeOK /\ Recorded /\ Membership /\ OneWatcher /\ ActiveIsMember

\* The entries of data->events that are not processed yet belong to active
\* watchers and report what those asked for; a callback runs exactly when
\* cb says so.
Dispatching ==
  /\ lpc = "out" => batch = {}
  /\ \A e \in batch :
       /\ e.ptr \in alive
       /\ active[e.ptr]
       /\ e.bits # {}
       /\ e.bits \subseteq Conds \cap (EventsToEpoll(wev[e.ptr]) \cup {"ERR", "HUP"})
  /\ lpc = "callback" <=> cb.w # NoWatcher
  /\ lpc # "callback" => cb = NoCb

-----------------------------------------------------------------------------
(* What the backend's operations do to the records and the kernel's set *)

(***************************************************************************)
(* events_to_epoll yields bits of struct epoll_event.                      *)
(***************************************************************************)
LEMMA BitsOfEvents ==
  ASSUME NEW events \in SUBSET PdEvents
  PROVE  EventsToEpoll(events) \in SUBSET EpollBits
BY DEF EventsToEpoll, PdEvents, EpollBits

\* The outcome n of registering w: a new member and its record, or nothing
\* but the eviction of what other watchers had recorded of the descriptor
Registering(n, o, r, m, w, fd, events) ==
  /\ n.ok \in BOOLEAN
  /\ n.regs \in Seq(Records)
  /\ Keyed(n.regs)
  /\ n.ok =>
       /\ fd \in o
       /\ n.mem = [m EXCEPT ![fd] = [ptr |-> w, events |-> EventsToEpoll(events)]]
       /\ Recs(n.regs) = {x \in Recs(r) : x.fd # fd}
                           \cup {[fd |-> fd, watcher |-> w]}
  /\ ~n.ok =>
       /\ n.mem = m
       /\ Recs(n.regs) \subseteq Recs(r)
       /\ \A x \in Recs(r) : x.fd # fd => x \in Recs(n.regs)

(***************************************************************************)
(* epoll_watcher_register, for a watcher without a record and a descriptor *)
(* that is not in the set, registers it or leaves the set alone.           *)
(***************************************************************************)
LEMMA Registered ==
  ASSUME NEW o, NEW r \in Seq(Records), NEW m, NEW w \in Watchers,
         NEW fd \in Fds, NEW events, NEW fault,
         Keyed(r), \A x \in Recs(r) : x.watcher # w
  PROVE  Registering(Register(o, r, m, w, fd, events, fault),
                     o, r, m, w, fd, events)
<1> DEFINE kept == EvictStale(r, fd, w)
           new  == [fd |-> fd, watcher |-> w]
<1>1. /\ kept \in Seq(Records)
      /\ Keyed(kept)
      /\ Recs(kept) = {x \in Recs(r) : x.fd # fd}
  BY StaleRecordEvicted
<1>2. new \in Records /\ \A y \in Recs(kept) : y.fd # new.fd /\ y.watcher # new.watcher
  BY <1>1 DEF Records
<1>3. /\ Append(kept, new) \in Seq(Records)
      /\ Keyed(Append(kept, new))
      /\ Recs(Append(kept, new)) = Recs(kept) \cup {new}
  BY <1>1, <1>2, RecordAdded
<1> HIDE DEF kept
<1>4. CASE fault = "alloc"
  BY <1>4 DEF Register, Registering, Done
<1>5. CASE /\ fault # "alloc"
           /\ fd \notin o \/ m[fd] # NoEntry \/ fault \in {"ctl", "grow"}
  BY <1>1, <1>5 DEF Register, Registering, Done, kept
<1>6. CASE /\ fault # "alloc"
           /\ ~(fd \notin o \/ m[fd] # NoEntry \/ fault \in {"ctl", "grow"})
  BY <1>1, <1>3, <1>6 DEF Register, Registering, Done, kept
<1> QED
  BY <1>4, <1>5, <1>6

\* The outcome n of unregistering w: nothing, an error because the descriptor
\* is open and not in the set, or the removal of the record and the member
Unregistering(n, o, r, m, w, fd) ==
  /\ n.regs \in Seq(Records)
  /\ Keyed(n.regs)
  /\ \/ /\ \A x \in Recs(r) : x.watcher # w
        /\ n = Done(TRUE, r, m)
     \/ /\ \E x \in Recs(r) : x.watcher = w
        /\ fd \in o /\ m[fd] = NoEntry
        /\ n = Done(FALSE, r, m)
     \/ /\ \E x \in Recs(r) : x.watcher = w
        /\ ~(fd \in o /\ m[fd] = NoEntry)
        /\ n.ok
        /\ Recs(n.regs) = {x \in Recs(r) : x.watcher # w}
        /\ n.mem = [m EXCEPT ![fd] = NoEntry]

LEMMA Unregistered ==
  ASSUME NEW o, NEW r \in Seq(Records), NEW m, NEW w, NEW fd, Keyed(r)
  PROVE  Unregistering(Unregister(o, r, m, w, fd), o, r, m, w, fd)
<1>1. CASE ~Owns(r, w)
  BY <1>1, OwnsRecord DEF Unregister, Unregistering, Done
<1>2. CASE Owns(r, w) /\ fd \in o /\ m[fd] = NoEntry
  BY <1>2, OwnsRecord DEF Unregister, Unregistering, Done
<1>3. CASE Owns(r, w) /\ ~(fd \in o /\ m[fd] = NoEntry)
  <2> DEFINE n == Unregister(o, r, m, w, fd)
  <2>1. n = Done(TRUE, RemoveRecord(r, OwnRecord(r, w)), [m EXCEPT ![fd] = NoEntry])
    BY <1>3 DEF Unregister
  <2>2. /\ n.regs \in Seq(Records)
        /\ Keyed(n.regs)
        /\ Recs(n.regs) = {x \in Recs(r) : x.watcher # w}
    BY <1>3, <2>1, OwnRecordRemoved DEF Done
  <2>3. n.ok /\ n.mem = [m EXCEPT ![fd] = NoEntry]
    BY <2>1 DEF Done
  <2> QED
    BY <1>3, <2>2, <2>3, OwnsRecord DEF Unregistering
<1> QED
  BY <1>1, <1>2, <1>3

(***************************************************************************)
(* The rollback of pd_watcher_init leaves the kernel's set as it was: what *)
(* InitWatcher does, it does completely or not at all.                     *)
(***************************************************************************)
LEMMA Initialised ==
  ASSUME NEW o, NEW r \in Seq(Records), NEW m \in [Fds -> Entries \cup {NoEntry}],
         NEW w \in Watchers, NEW fd \in Fds, NEW events \in SUBSET PdEvents,
         NEW fault, Keyed(r), \A x \in Recs(r) : x.watcher # w
  PROVE  Registering(InitWatcher(o, r, m, w, fd, events, fault),
                     o, r, m, w, fd, events)
<1> DEFINE reg   == Register(o, r, m, w, fd, events, fault)
           unreg == Unregister(o, reg.regs, reg.mem, w, fd)
           new   == [fd |-> fd, watcher |-> w]
           entry == [ptr |-> w, events |-> EventsToEpoll(events)]
<1>1. Registering(reg, o, r, m, w, fd, events)
  BY Registered
<1>2. Unregistering(unreg, o, reg.regs, reg.mem, w, fd)
  BY <1>1, Unregistered DEF Registering
<1>3. entry \in Entries /\ entry # NoEntry
  BY BitsOfEvents, NoEntryAssumption DEF Entries
<1>4. reg.ok => m[fd] = NoEntry
  BY DEF Register, Done
<1>5. InitWatcher(o, r, m, w, fd, events, fault)
        = IF reg.ok /\ fault = "list"
            THEN Done(FALSE, unreg.regs, unreg.mem) ELSE reg
  BY DEF InitWatcher
<1> HIDE DEF reg, unreg, entry
<1>6. CASE reg.ok /\ fault = "list"
  <2>1. reg.mem = [m EXCEPT ![fd] = entry] /\ new \in Recs(reg.regs)
    BY <1>1, <1>6 DEF Registering, entry
  <2>2. reg.mem[fd] # NoEntry
    BY <1>3, <2>1
  <2>3. /\ Recs(unreg.regs) = {x \in Recs(reg.regs) : x.watcher # w}
        /\ unreg.mem = [reg.mem EXCEPT ![fd] = NoEntry]
    BY <1>2, <2>1, <2>2 DEF Unregistering
  <2>4. unreg.mem = m
    BY <1>4, <1>6, <2>1, <2>3
  <2>5. Recs(unreg.regs) = {x \in Recs(r) : x.fd # fd}
    BY <1>1, <1>6, <2>3 DEF Registering
  <2>6. unreg.regs \in Seq(Records) /\ Keyed(unreg.regs)
    BY <1>2 DEF Unregistering
  <2>7. Registering(Done(FALSE, unreg.regs, unreg.mem), o, r, m, w, fd, events)
    BY <2>4, <2>5, <2>6 DEF Registering, Done
  <2> QED
    BY <1>5, <1>6, <2>7
<1>7. CASE ~(reg.ok /\ fault = "list")
  BY <1>1, <1>5, <1>7
<1> QED
  BY <1>6, <1>7

(***************************************************************************)
(* Unregistering a watcher again changes nothing, so pd_watcher_destroy,   *)
(* which does it in pd_watcher_stop and in pd_watcher_cleanup, has the     *)
(* effect of one unregistration.                                           *)
(***************************************************************************)
LEMMA UnregisteredAgain ==
  ASSUME NEW o, NEW r \in Seq(Records), NEW m, NEW w, NEW fd, Keyed(r)
  PROVE  LET u == Unregister(o, r, m, w, fd)
             v == Unregister(o, u.regs, u.mem, w, fd)
         IN  v.regs = u.regs /\ v.mem = u.mem
<1> DEFINE u == Unregister(o, r, m, w, fd)
           v == Unregister(o, u.regs, u.mem, w, fd)
<1>1. Unregistering(u, o, r, m, w, fd)
  BY Unregistered
<1>2. u.regs \in Seq(Records) /\ Keyed(u.regs)
  BY <1>1 DEF Unregistering
<1>3. Unregistering(v, o, u.regs, u.mem, w, fd)
  BY <1>2, Unregistered
<1> HIDE DEF u, v
<1>4. CASE u = Done(TRUE, r, m) \/ u = Done(FALSE, r, m)
  <2>1. u.regs = r /\ u.mem = m
    BY <1>4 DEF Done
  <2>2. v = u
    BY <2>1 DEF u, v
  <2> QED
    BY <2>2 DEF u, v
<1>5. CASE Recs(u.regs) = {x \in Recs(r) : x.watcher # w}
  <2>1. v = Done(TRUE, u.regs, u.mem)
    BY <1>3, <1>5 DEF Unregistering
  <2>2. v.regs = u.regs /\ v.mem = u.mem
    BY <2>1 DEF Done
  <2> QED
    BY <2>2 DEF u, v
<1> QED
  BY <1>1, <1>4, <1>5 DEF Unregistering

LEMMA Destroyed ==
  ASSUME NEW o, NEW r \in Seq(Records), NEW m, NEW w, NEW fd, NEW isActive,
         Keyed(r)
  PROVE  LET n == DestroyWatcher(o, r, m, w, fd, isActive)
             u == Unregister(o, r, m, w, fd)
         IN  n.regs = u.regs /\ n.mem = u.mem
BY UnregisteredAgain DEF DestroyWatcher, StopWatcher, Done

-----------------------------------------------------------------------------
(* Every step preserves the inductive invariant *)

(***************************************************************************)
(* Registering a watcher of a descriptor that no other live watcher uses.  *)
(* Both pd_watcher_create and pd_watcher_start end in this.                *)
(***************************************************************************)
LEMMA RegisterStep ==
  ASSUME EInv, NEW w \in Watchers, NEW f \in Fds, NEW ev \in SUBSET PdEvents,
         NEW n, Registering(n, open, regs, mem, w, f, ev),
         \A x \in Recs(regs) : x.watcher # w,
         \A v \in alive \ stale : wfd[v] = f => v = w /\ ~active[w],
         w \notin stale,
         regs' = n.regs, mem' = n.mem, open' = open, stale' = stale,
         tainted' = tainted,
         n.ok => /\ alive' = alive \cup {w}
                 /\ wfd' = [wfd EXCEPT ![w] = f]
                 /\ wev' = [wev EXCEPT ![w] = ev]
                 /\ active' = [active EXCEPT ![w] = TRUE],
         ~n.ok => UNCHANGED <<alive, wfd, wev, active>>
  PROVE  /\ mem' \in [Fds -> Entries \cup {NoEntry}]
         /\ regs' \in Seq(Records)
         /\ \A g \in Fds \ open' : mem'[g] = NoEntry
         /\ Recorded' /\ Membership' /\ OneWatcher' /\ ActiveIsMember'
<1> DEFINE new   == [fd |-> f, watcher |-> w]
           entry == [ptr |-> w, events |-> EventsToEpoll(ev)]
<1>1. mem[f] = NoEntry
  BY DEF EInv, Membership, Member
<1>2. entry \in Entries /\ new \in Records
  BY BitsOfEvents DEF Entries, Records
<1>3. regs' \in Seq(Records) /\ Keyed(regs')
  BY DEF Registering
<1>4. CASE ~n.ok
  <2>1. mem' = mem /\ UNCHANGED <<alive, wfd, wev, active>>
    BY <1>4 DEF Registering
  <2>2. /\ Recs(regs') \subseteq Recs(regs)
        /\ \A x \in Recs(regs) : x.fd # f => x \in Recs(regs')
    BY <1>4 DEF Registering
  <2>3. Recorded' /\ OneWatcher' /\ ActiveIsMember'
    BY <1>3, <2>1, <2>2
       DEF EInv, Recorded, OneWatcher, ActiveIsMember
  <2>4. Membership'
    <3> SUFFICES ASSUME NEW g \in Fds, mem[g] # NoEntry PROVE Member(g, mem[g])'
      BY <2>1 DEF Membership
    <3>1. g # f /\ Member(g, mem[g])
      BY <1>1 DEF EInv, Membership
    <3> QED
      BY <2>1, <2>2, <3>1 DEF Member
  <2> QED
    BY <1>3, <2>1, <2>3, <2>4 DEF EInv, EpollTypeOK
<1>5. CASE n.ok
  <2>1. /\ alive' = alive \cup {w}
        /\ wfd' = [wfd EXCEPT ![w] = f]
        /\ wev' = [wev EXCEPT ![w] = ev]
        /\ active' = [active EXCEPT ![w] = TRUE]
    BY <1>5
  <2>2. /\ f \in open
        /\ mem' = [mem EXCEPT ![f] = entry]
        /\ Recs(regs') = {x \in Recs(regs) : x.fd # f} \cup {new}
    BY <1>5 DEF Registering
  <2>3. /\ mem' \in [Fds -> Entries \cup {NoEntry}]
        /\ \A g \in Fds \ open' : mem'[g] = NoEntry
    BY <1>2, <2>2 DEF EInv, EpollTypeOK
  <2>4. wfd'[w] = f /\ active'[w] = TRUE /\ wev'[w] = ev
    BY <2>1 DEF EInv, EpollTypeOK
  <2>5. \A v \in Watchers \ {w} :
          wfd'[v] = wfd[v] /\ active'[v] = active[v] /\ wev'[v] = wev[v]
    BY <2>1 DEF EInv, EpollTypeOK
  <2>6. \A x \in Recs(regs) : x.watcher \in Watchers
    <3>1. Recs(regs) \subseteq Records
      BY RecordType DEF EInv, EpollTypeOK
    <3> QED
      BY <3>1 DEF Records
  <2>7. Recorded'
    <3>1. ASSUME NEW x \in Recs(regs)
          PROVE  IF x.watcher \in alive'
                   THEN active'[x.watcher] /\ wfd'[x.watcher] = x.fd
                   ELSE x.watcher \in tainted'
      BY <2>1, <2>5, <2>6 DEF EInv, Recorded
    <3> QED
      BY <1>3, <2>1, <2>2, <2>4, <3>1 DEF Recorded
  <2>8. Membership'
    <3> SUFFICES ASSUME NEW g \in Fds, mem'[g] # NoEntry PROVE Member(g, mem[g])'
      BY DEF Membership
    <3>1. CASE g = f
      <4>1. mem'[g] = entry
        BY <2>2, <3>1 DEF EInv, EpollTypeOK
      <4> QED
        BY <2>1, <2>2, <2>4, <3>1, <4>1 DEF Member
    <3>2. CASE g # f
      <4>1. mem'[g] = mem[g] /\ Member(g, mem[g])
        BY <2>2, <3>2 DEF EInv, EpollTypeOK, Membership
      <4>2. mem[g].ptr # w /\ mem[g].ptr \in Watchers
        BY <4>1 DEF Member, EInv, EpollTypeOK
      <4> QED
        BY <2>1, <2>2, <2>5, <3>2, <4>1, <4>2 DEF Member
    <3> QED
      BY <3>1, <3>2
  <2>9. OneWatcher'
    BY <2>1, <2>2, <2>4, <2>5 DEF EInv, EpollTypeOK, OneWatcher
  <2>10. ActiveIsMember'
    <3> SUFFICES ASSUME NEW v \in alive' \ stale', active'[v]
                 PROVE  mem'[wfd'[v]] = [ptr |-> v, events |-> EventsToEpoll(wev'[v])]
      BY DEF ActiveIsMember
    <3>1. CASE v = w
      BY <2>2, <2>4, <3>1 DEF EInv, EpollTypeOK
    <3>2. CASE v # w
      <4>1. v \in alive \ stale /\ v \in Watchers /\ wfd[v] # f
        BY <2>1, <3>2 DEF EInv, EpollTypeOK
      <4> QED
        BY <2>2, <2>5, <3>2, <4>1 DEF EInv, EpollTypeOK, ActiveIsMember
    <3> QED
      BY <3>1, <3>2
  <2> QED
    BY <1>3, <2>3, <2>7, <2>8, <2>9, <2>10
<1> QED
  BY <1>4, <1>5 DEF Registering


(***************************************************************************)
(* Unregistering a live watcher, which pd_watcher_stop and                 *)
(* pd_watcher_destroy end in, takes away its own record and its own member *)
(* of the set only; it fails, and leaves a record behind, only for a       *)
(* watcher whose descriptor was closed.                                    *)
(***************************************************************************)
LEMMA UnregisterStep ==
  ASSUME EInv, NEW w \in alive, NEW n, n = Unregister(open, regs, mem, w, wfd[w])
  PROVE  /\ n.regs \in Seq(Records) /\ Keyed(n.regs)
         /\ Recs(n.regs) \subseteq Recs(regs)
         /\ \A x \in Recs(regs) : x.watcher # w => x \in Recs(n.regs)
         /\ \A x \in Recs(n.regs) : x.watcher = w => ~n.ok
         /\ n.ok \in BOOLEAN
         /\ ~n.ok => w \in stale
         /\ n.mem \in [Fds -> Entries \cup {NoEntry}]
         /\ \A g \in Fds : n.mem[g] # NoEntry =>
              n.mem[g] = mem[g] /\ mem[g].ptr # w
         /\ \A v \in alive \ stale : active[v] /\ v # w =>
              n.mem[wfd[v]] = mem[wfd[v]]
<1> DEFINE fd == wfd[w]
<1>0. /\ w \in Watchers
      /\ fd \in Fds
      /\ regs \in Seq(Records) /\ Keyed(regs)
      /\ mem \in [Fds -> Entries \cup {NoEntry}]
  BY DEF EInv, EpollTypeOK, Recorded
<1>1. Unregistering(n, open, regs, mem, w, fd)
  BY <1>0, Unregistered
<1>2. n.regs \in Seq(Records) /\ Keyed(n.regs)
  BY <1>1 DEF Unregistering
<1>3. ASSUME NEW g \in Fds, mem[g] # NoEntry, mem[g].ptr = w
      PROVE  g = fd /\ \E x \in Recs(regs) : x.watcher = w
  BY <1>3 DEF EInv, Membership, Member
<1>4. CASE n = Done(TRUE, regs, mem) /\ \A x \in Recs(regs) : x.watcher # w
  BY <1>0, <1>2, <1>3, <1>4 DEF Done
<1>5. CASE /\ n = Done(FALSE, regs, mem)
           /\ mem[fd] = NoEntry
           /\ \E x \in Recs(regs) : x.watcher = w
  <2>1. active[w]
    BY <1>5 DEF EInv, Recorded
  <2>2. [ptr |-> w, events |-> EventsToEpoll(wev[w])] # NoEntry
    BY <1>0, BitsOfEvents, NoEntryAssumption DEF EInv, EpollTypeOK, Entries
  <2>3. w \in stale
    BY <1>5, <2>1, <2>2 DEF EInv, ActiveIsMember
  <2> QED
    BY <1>0, <1>2, <1>3, <1>5, <2>3 DEF Done
<1>6. CASE /\ n.ok
           /\ \E x \in Recs(regs) : x.watcher = w
           /\ Recs(n.regs) = {x \in Recs(regs) : x.watcher # w}
           /\ n.mem = [mem EXCEPT ![fd] = NoEntry]
  <2>1. n.ok = TRUE
    BY <1>1, <1>6 DEF Unregistering, Done
  <2>2. /\ n.mem \in [Fds -> Entries \cup {NoEntry}]
        /\ \A g \in Fds : n.mem[g] # NoEntry => n.mem[g] = mem[g] /\ mem[g].ptr # w
    BY <1>0, <1>3, <1>6
  <2>3. ASSUME NEW v \in alive \ stale, active[v], v # w
        PROVE  n.mem[wfd[v]] = mem[wfd[v]]
    <3>1. /\ v \in Watchers /\ wfd[v] \in Fds
          /\ mem[wfd[v]] = [ptr |-> v, events |-> EventsToEpoll(wev[v])]
      BY <2>3 DEF EInv, EpollTypeOK, ActiveIsMember
    <3>2. mem[wfd[v]] # NoEntry
      BY <3>1, BitsOfEvents, NoEntryAssumption DEF EInv, EpollTypeOK, Entries
    <3>3. [fd |-> wfd[v], watcher |-> v] \in Recs(regs)
      BY <3>1, <3>2 DEF EInv, Membership, Member
    <3>4. PICK x \in Recs(regs) : x.watcher = w /\ x.fd = fd
      BY <1>6 DEF EInv, Recorded
    <3>5. wfd[v] # fd
      BY <1>0, <2>3, <3>3, <3>4 DEF Keyed, Recs
    <3> QED
      BY <1>0, <1>6, <3>1, <3>5
  <2> QED
    BY <1>2, <1>6, <2>1, <2>2, <2>3
<1> QED
  BY <1>1, <1>4, <1>5, <1>6 DEF Unregistering


(***************************************************************************)
(* The application's descriptors: a number that is opened again is not in  *)
(* the set, and closing one makes its watchers stale.                      *)
(***************************************************************************)
LEMMA DescriptorStep ==
  ASSUME EInv, NEW f \in Fds, OpenFd(f) \/ CloseFd(f)
  PROVE  EInv'
<1>1. CASE OpenFd(f)
  BY <1>1 DEF OpenFd, EInv, EpollTypeOK, Recorded, Membership, Member,
              OneWatcher, ActiveIsMember
<1>2. CASE CloseFd(f)
  <2>1. /\ mem' = [mem EXCEPT ![f] = NoEntry]
        /\ open' = open \ {f}
        /\ stale' = stale \cup {w \in alive : wfd[w] = f}
        /\ UNCHANGED <<regs, alive, wfd, wev, active, tainted, lpc, batch, cb>>
    BY <1>2 DEF CloseFd
  <2>2. EpollTypeOK'
    BY <2>1 DEF EInv, EpollTypeOK
  <2>3. Recorded' /\ OneWatcher'
    BY <2>1 DEF EInv, Recorded, OneWatcher
  <2>4. Membership'
    <3> SUFFICES ASSUME NEW g \in Fds, mem'[g] # NoEntry PROVE Member(g, mem[g])'
      BY DEF Membership
    <3>1. g # f /\ mem'[g] = mem[g] /\ Member(g, mem[g])
      BY <2>1 DEF EInv, EpollTypeOK, Membership
    <3> QED
      BY <2>1, <3>1 DEF Member
  <2>5. ActiveIsMember'
    BY <2>1 DEF EInv, EpollTypeOK, ActiveIsMember
  <2> QED
    BY <2>2, <2>3, <2>4, <2>5 DEF EInv
<1> QED
  BY <1>1, <1>2

(***************************************************************************)
(* pd_watcher_create and pd_watcher_start.                                 *)
(***************************************************************************)
LEMMA CreateStep ==
  ASSUME Rules, EInv, NEW w \in Watchers, NEW f \in Fds, NEW ev \in Masks,
         NEW fault, Create(w, f, ev, fault)
  PROVE  EInv'
<1> DEFINE n == InitWatcher(open, regs, mem, w, f, ev, fault)
<1>0. ev \in SUBSET PdEvents
  BY EpollAssumption
<1>1. w \notin alive /\ w \notin tainted /\ w \notin stale
  BY DEF Rules, Create, Fresh, EInv, EpollTypeOK
<1>2. \A x \in Recs(regs) : x.watcher # w
  BY <1>1 DEF EInv, Recorded
<1>3. \A v \in alive \ stale : wfd[v] # f
  BY DEF Rules, Create, Free
<1>4. Registering(n, open, regs, mem, w, f, ev)
  BY <1>0, <1>2, Initialised DEF EInv, EpollTypeOK, Recorded
<1>5. /\ regs' = n.regs /\ mem' = n.mem
      /\ n.ok => /\ alive' = alive \cup {w}
                 /\ wfd' = [wfd EXCEPT ![w] = f]
                 /\ wev' = [wev EXCEPT ![w] = ev]
                 /\ active' = [active EXCEPT ![w] = TRUE]
      /\ ~n.ok => UNCHANGED <<alive, wfd, wev, active>>
      /\ UNCHANGED <<open, stale, tainted, lpc, batch, cb>>
  BY DEF Create
<1> HIDE DEF n
<1>6. /\ mem' \in [Fds -> Entries \cup {NoEntry}]
      /\ regs' \in Seq(Records)
      /\ \A g \in Fds \ open' : mem'[g] = NoEntry
      /\ Recorded' /\ Membership' /\ OneWatcher' /\ ActiveIsMember'
  BY <1>0, <1>1, <1>2, <1>3, <1>4, <1>5, RegisterStep
<1>7. EpollTypeOK'
  BY <1>0, <1>5, <1>6 DEF EInv, EpollTypeOK
<1> QED
  BY <1>6, <1>7 DEF EInv

LEMMA StartStep ==
  ASSUME Rules, EInv, NEW w \in Watchers, NEW fault, Start(w, fault)
  PROVE  EInv'
<1> DEFINE n == Register(open, regs, mem, w, wfd[w], wev[w], fault)
<1>1. w \in alive \ stale /\ ~active[w] /\ wfd[w] \in Fds /\ wev[w] \in SUBSET PdEvents
  BY DEF Rules, Start, Usable, EInv, EpollTypeOK
<1>2. \A x \in Recs(regs) : x.watcher # w
  BY <1>1 DEF EInv, Recorded
<1>3. \A v \in alive \ stale : wfd[v] = wfd[w] => v = w /\ ~active[w]
  BY <1>1 DEF EInv, OneWatcher
<1>4. Registering(n, open, regs, mem, w, wfd[w], wev[w])
  BY <1>1, <1>2, Registered DEF EInv, EpollTypeOK, Recorded
<1>5. /\ regs' = n.regs /\ mem' = n.mem
      /\ active' = [active EXCEPT ![w] = n.ok]
      /\ UNCHANGED <<open, alive, wfd, wev, stale, tainted, lpc, batch, cb>>
  BY DEF Start
<1> HIDE DEF n
<1>6. /\ alive' = alive \cup {w}
      /\ wfd' = [wfd EXCEPT ![w] = wfd[w]]
      /\ wev' = [wev EXCEPT ![w] = wev[w]]
  BY <1>1, <1>5 DEF EInv, EpollTypeOK
<1>7. /\ n.ok \in BOOLEAN
      /\ n.ok => active' = [active EXCEPT ![w] = TRUE]
      /\ ~n.ok => active' = active
  BY <1>1, <1>4, <1>5 DEF EInv, EpollTypeOK, Registering
<1>8. /\ mem' \in [Fds -> Entries \cup {NoEntry}]
      /\ regs' \in Seq(Records)
      /\ \A g \in Fds \ open' : mem'[g] = NoEntry
      /\ Recorded' /\ Membership' /\ OneWatcher' /\ ActiveIsMember'
  BY <1>1, <1>2, <1>3, <1>4, <1>5, <1>6, <1>7, RegisterStep
<1>9. EpollTypeOK'
  BY <1>5, <1>7, <1>8 DEF EInv, EpollTypeOK
<1> QED
  BY <1>8, <1>9 DEF EInv

(***************************************************************************)
(* pd_watcher_stop, pd_watcher_update and pd_watcher_destroy.              *)
(***************************************************************************)
LEMMA StopStep ==
  ASSUME EInv, NEW w \in Watchers, Stop(w)
  PROVE  EInv'
<1> DEFINE n == Unregister(open, regs, mem, w, wfd[w])
<1>1. /\ w \in alive /\ active[w]
      /\ regs' = n.regs /\ mem' = n.mem
      /\ active' = [active EXCEPT ![w] = ~n.ok]
      /\ UNCHANGED <<open, alive, wfd, wev, stale, tainted, lpc, batch, cb>>
  BY DEF Stop, StopWatcher
<1>2. /\ regs' \in Seq(Records) /\ Keyed(regs')
      /\ Recs(regs') \subseteq Recs(regs)
      /\ \A x \in Recs(regs) : x.watcher # w => x \in Recs(regs')
      /\ \A x \in Recs(regs') : x.watcher = w => ~n.ok
      /\ n.ok \in BOOLEAN
      /\ ~n.ok => w \in stale
      /\ mem' \in [Fds -> Entries \cup {NoEntry}]
      /\ \A g \in Fds : mem'[g] # NoEntry => mem'[g] = mem[g] /\ mem[g].ptr # w
      /\ \A v \in alive \ stale : active[v] /\ v # w => mem'[wfd[v]] = mem[wfd[v]]
  BY <1>1, UnregisterStep
<1> HIDE DEF n
<1>3. active'[w] = ~n.ok /\ \A v \in Watchers \ {w} : active'[v] = active[v]
  BY <1>1 DEF EInv, EpollTypeOK
<1>4. EpollTypeOK'
  BY <1>1, <1>2 DEF EInv, EpollTypeOK
<1>5. Recorded'
  <2> SUFFICES ASSUME NEW x \in Recs(regs')
               PROVE  IF x.watcher \in alive
                        THEN active'[x.watcher] /\ wfd[x.watcher] = x.fd
                        ELSE x.watcher \in tainted
    BY <1>1, <1>2 DEF Recorded
  <2>1. CASE x.watcher = w
    BY <1>2, <1>3, <2>1 DEF EInv, Recorded
  <2>2. CASE x.watcher # w
    BY <1>2, <1>3, <2>2 DEF EInv, EpollTypeOK, Recorded
  <2> QED
    BY <2>1, <2>2
<1>6. Membership'
  <2> SUFFICES ASSUME NEW g \in Fds, mem'[g] # NoEntry PROVE Member(g, mem[g])'
    BY DEF Membership
  <2>1. mem'[g] = mem[g] /\ mem[g].ptr # w /\ Member(g, mem[g])
    BY <1>2 DEF EInv, Membership
  <2> QED
    BY <1>1, <1>2, <1>3, <2>1 DEF Member, EInv, EpollTypeOK
<1>7. OneWatcher'
  BY <1>1 DEF EInv, OneWatcher
<1>8. ActiveIsMember'
  <2> SUFFICES ASSUME NEW v \in alive \ stale, active'[v]
               PROVE  mem'[wfd[v]] = [ptr |-> v, events |-> EventsToEpoll(wev[v])]
    BY <1>1 DEF ActiveIsMember
  <2>1. v # w /\ active[v]
    BY <1>2, <1>3 DEF EInv, EpollTypeOK
  <2> QED
    BY <1>2, <2>1 DEF EInv, ActiveIsMember
<1> QED
  BY <1>4, <1>5, <1>6, <1>7, <1>8 DEF EInv

LEMMA UpdateStep ==
  ASSUME Rules, EInv, NEW w \in Watchers, NEW ev \in Masks, Update(w, ev)
  PROVE  EInv'
<1> DEFINE entry == [ptr |-> w, events |-> EventsToEpoll(ev)]
<1>0. ev \in SUBSET PdEvents
  BY EpollAssumption
<1>1. /\ w \in alive \ stale /\ active[w] /\ wfd[w] \in Fds
      /\ wev' = [wev EXCEPT ![w] = ev]
      /\ UNCHANGED <<open, regs, alive, wfd, active, stale, tainted, lpc, batch, cb>>
  BY DEF Rules, Update, Usable, EInv, EpollTypeOK
<1>2. entry \in Entries /\ mem[wfd[w]] \in Entries /\ mem[wfd[w]].ptr = w
  <2>1. mem[wfd[w]] = [ptr |-> w, events |-> EventsToEpoll(wev[w])]
    BY <1>1 DEF EInv, ActiveIsMember
  <2>2. /\ EventsToEpoll(ev) \in SUBSET EpollBits
        /\ EventsToEpoll(wev[w]) \in SUBSET EpollBits
    BY <1>0, BitsOfEvents DEF EInv, EpollTypeOK
  <2> QED
    BY <2>1, <2>2 DEF Entries
<1>3. mem[wfd[w]] # NoEntry
  BY <1>2, NoEntryAssumption
<1>4. mem' = [mem EXCEPT ![wfd[w]] = entry]
  BY <1>3 DEF Update, Modify
<1>5. /\ mem' \in [Fds -> Entries \cup {NoEntry}]
      /\ mem'[wfd[w]] = entry
      /\ \A g \in Fds : g # wfd[w] => mem'[g] = mem[g]
      /\ wev'[w] = ev
      /\ \A v \in Watchers : v # w => wev'[v] = wev[v]
  BY <1>1, <1>2, <1>4 DEF EInv, EpollTypeOK
<1>6. EpollTypeOK'
  BY <1>0, <1>1, <1>3, <1>5 DEF EInv, EpollTypeOK
<1>7. Recorded' /\ OneWatcher'
  BY <1>1 DEF EInv, Recorded, OneWatcher
<1>8. Membership'
  <2> SUFFICES ASSUME NEW g \in Fds, mem'[g] # NoEntry PROVE Member(g, mem[g])'
    BY DEF Membership
  <2>1. mem'[g].ptr = mem[g].ptr /\ mem[g] # NoEntry
    BY <1>2, <1>3, <1>5
  <2> QED
    BY <1>1, <2>1 DEF EInv, Membership, Member
<1>9. ActiveIsMember'
  BY <1>1, <1>5 DEF EInv, EpollTypeOK, OneWatcher, ActiveIsMember
<1> QED
  BY <1>6, <1>7, <1>8, <1>9 DEF EInv

LEMMA DestroyStep ==
  ASSUME EInv, NEW w \in Watchers, Destroy(w)
  PROVE  EInv'
<1> DEFINE n == Unregister(open, regs, mem, w, wfd[w])
<1>0. wfd[w] \in Fds /\ AnyFd \in Fds
  BY EpollAssumption DEF EInv, EpollTypeOK, AnyFd
<1>1. /\ w \in alive
      /\ alive' = alive \ {w}
      /\ stale' = stale \ {w}
      /\ tainted' = tainted \cup ({w} \cap stale)
      /\ wfd' = [wfd EXCEPT ![w] = AnyFd]
      /\ wev' = [wev EXCEPT ![w] = {}]
      /\ active' = [active EXCEPT ![w] = FALSE]
      /\ UNCHANGED <<open, lpc, batch, cb>>
  BY DEF Destroy, Forget
<1>2. regs' = n.regs /\ mem' = n.mem
  BY <1>0, Destroyed DEF Destroy, EInv, EpollTypeOK, Recorded
<1>3. /\ regs' \in Seq(Records) /\ Keyed(regs')
      /\ Recs(regs') \subseteq Recs(regs)
      /\ \A x \in Recs(regs) : x.watcher # w => x \in Recs(regs')
      /\ \A x \in Recs(regs') : x.watcher = w => w \in stale
      /\ mem' \in [Fds -> Entries \cup {NoEntry}]
      /\ \A g \in Fds : mem'[g] # NoEntry => mem'[g] = mem[g] /\ mem[g].ptr # w
      /\ \A v \in alive \ stale : active[v] /\ v # w => mem'[wfd[v]] = mem[wfd[v]]
  BY <1>1, <1>2, UnregisterStep
<1> HIDE DEF n
<1>4. \A v \in Watchers \ {w} :
        active'[v] = active[v] /\ wfd'[v] = wfd[v] /\ wev'[v] = wev[v]
  BY <1>1 DEF EInv, EpollTypeOK
<1>5. EpollTypeOK'
  BY <1>0, <1>1, <1>3 DEF EInv, EpollTypeOK
<1>6. Recorded'
  <2> SUFFICES ASSUME NEW x \in Recs(regs')
               PROVE  IF x.watcher \in alive'
                        THEN active'[x.watcher] /\ wfd'[x.watcher] = x.fd
                        ELSE x.watcher \in tainted'
    BY <1>3 DEF Recorded
  <2>1. CASE x.watcher = w
    BY <1>1, <1>3, <2>1
  <2>2. CASE x.watcher # w
    BY <1>1, <1>3, <1>4, <2>2 DEF EInv, EpollTypeOK, Recorded
  <2> QED
    BY <2>1, <2>2
<1>7. Membership'
  <2> SUFFICES ASSUME NEW g \in Fds, mem'[g] # NoEntry PROVE Member(g, mem[g])'
    BY DEF Membership
  <2>1. mem'[g] = mem[g] /\ mem[g].ptr # w /\ Member(g, mem[g])
    BY <1>3 DEF EInv, Membership
  <2> QED
    BY <1>1, <1>3, <1>4, <2>1 DEF Member, EInv, EpollTypeOK
<1>8. OneWatcher'
  BY <1>1, <1>4 DEF EInv, EpollTypeOK, OneWatcher
<1>9. ActiveIsMember'
  <2> SUFFICES ASSUME NEW v \in alive' \ stale', active'[v]
               PROVE  mem'[wfd'[v]] = [ptr |-> v, events |-> EventsToEpoll(wev'[v])]
    BY DEF ActiveIsMember
  <2>1. v # w /\ v \in alive \ stale /\ v \in Watchers
    BY <1>1 DEF EInv, EpollTypeOK
  <2> QED
    BY <1>3, <1>4, <2>1 DEF EInv, ActiveIsMember
<1> QED
  BY <1>5, <1>6, <1>7, <1>8, <1>9 DEF EInv


(***************************************************************************)
(* epoll_loop_run only reads the kernel's set; the events it hands to the  *)
(* callbacks are poll-dancer's.                                            *)
(***************************************************************************)
LEMMA EventsOfBits ==
  ASSUME NEW bits \in SUBSET EpollBits
  PROVE  EpollToEvents(bits) \in SUBSET PdEvents
BY DEF EpollToEvents, PdEvents, EpollBits

LEMMA LoopRunStep ==
  ASSUME EInv, LoopStep
  PROVE  EInv'
<1>1. UNCHANGED <<open, mem, regs, alive, wfd, wev, active, stale, tainted>>
  BY DEF LoopStep, EpollWait, Dispatch, CallbackReturn, LoopReturn
<1>2. Recorded' /\ Membership' /\ OneWatcher' /\ ActiveIsMember'
  BY <1>1 DEF EInv, Recorded, Membership, Member, OneWatcher, ActiveIsMember
<1> DEFINE RunOK ==
      /\ lpc' \in {"out", "dispatch", "callback"}
      /\ \A e \in batch' : /\ e.fd \in Fds
                           /\ e.ptr \in Watchers
                           /\ e.bits \subseteq EpollBits
      /\ cb' \in [w : Watchers \cup {NoWatcher}, events : SUBSET PdEvents]
<1>3. RunOK
  <2>1. ASSUME NEW F \in SUBSET Fds, NEW bits \in [F -> SUBSET Conds],
               EpollWait(F, bits)
        PROVE  RunOK
    <3>1. ASSUME NEW f \in F
          PROVE  mem[f].ptr \in Watchers /\ bits[f] \subseteq EpollBits
      BY <2>1, EpollAssumption DEF EpollWait, EInv, EpollTypeOK, Entries
    <3> QED
      BY <2>1, <3>1 DEF EpollWait, EInv, EpollTypeOK
  <2>2. ASSUME NEW e \in batch, Dispatch(e) PROVE RunOK
    <3>1. EpollToEvents(e.bits) \in SUBSET PdEvents
      BY EventsOfBits DEF EInv, EpollTypeOK
    <3> QED
      BY <2>2, <3>1 DEF Dispatch, EInv, EpollTypeOK
  <2>3. CASE CallbackReturn \/ LoopReturn
    BY <2>3 DEF CallbackReturn, LoopReturn, EInv, EpollTypeOK, NoCb
  <2> QED
    BY <2>1, <2>2, <2>3 DEF LoopStep
<1>4. EpollTypeOK'
  BY <1>1, <1>3 DEF EInv, EpollTypeOK
<1> QED
  BY <1>2, <1>4 DEF EInv

(***************************************************************************)
(* The invariant is inductive, and so holds in every reachable state.      *)
(***************************************************************************)
LEMMA EInvStep ==
  ASSUME Rules, EInv, [EpollNext]_evars
  PROVE  EInv'
<1>1. CASE AppStep
  BY <1>1, DescriptorStep, CreateStep, StartStep, StopStep, UpdateStep,
     DestroyStep DEF AppStep
<1>2. CASE LoopStep
  BY <1>2, LoopRunStep
<1>3. CASE UNCHANGED evars
  BY <1>3 DEF evars, EInv, EpollTypeOK, Recorded, Membership, Member,
              OneWatcher, ActiveIsMember
<1> QED
  BY <1>1, <1>2, <1>3 DEF EpollNext

LEMMA EInvInit == EpollInit => EInv
<1> SUFFICES ASSUME EpollInit PROVE EInv
  OBVIOUS
<1>1. AnyFd \in Fds
  BY EpollAssumption DEF AnyFd
<1>2. EpollTypeOK
  BY <1>1 DEF EpollInit, EpollTypeOK, NoCb
<1>3. Recorded /\ Membership /\ OneWatcher /\ ActiveIsMember
  BY NoRecords
     DEF EpollInit, Recorded, Membership, OneWatcher, ActiveIsMember
<1> QED
  BY <1>2, <1>3 DEF EInv

LEMMA Inductive ==
  ASSUME Rules
  PROVE  EpollSpec => []EInv
BY EInvInit, EInvStep, PTL DEF EpollSpec

-----------------------------------------------------------------------------
(* Theorems about the registrations *)

(***************************************************************************)
(* The records, the kernel's set and the batch name known watchers and     *)
(* descriptors, and a closed descriptor is in no set.                      *)
(***************************************************************************)
THEOREM TypeCorrect ==
  ASSUME Rules
  PROVE  EpollSpec => []EpollTypeOK
<1>1. EInv => EpollTypeOK
  BY DEF EInv
<1> QED
  BY <1>1, Inductive, PTL

(***************************************************************************)
(* No connection goes unread: an active watcher's descriptor is in the     *)
(* kernel's set with the mask last asked for, until the application closes *)
(* it.                                                                     *)
(***************************************************************************)
THEOREM ActiveIsWatched ==
  ASSUME Rules
  PROVE  EpollSpec => []ActiveIsMember
<1>1. EInv => ActiveIsMember
  BY DEF EInv
<1> QED
  BY <1>1, Inductive, PTL

(***************************************************************************)
(* The kernel never holds a pointer to a freed or stopped watcher.         *)
(***************************************************************************)
THEOREM NothingDangles ==
  ASSUME Rules
  PROVE  EpollSpec => []NoDanglingEntry
<1>1. EInv => NoDanglingEntry
  BY DEF EInv, Membership, Member, NoDanglingEntry
<1> QED
  BY <1>1, Inductive, PTL

(***************************************************************************)
(* Every member of the kernel's set has the one record of its descriptor,  *)
(* so its watcher's teardown finds it.                                     *)
(***************************************************************************)
THEOREM MembersRecorded ==
  ASSUME Rules
  PROVE  EpollSpec => []MemberHasRecord
<1>1. EInv => MemberHasRecord
  BY DEF EInv, Membership, Member, Recorded, Keyed, Recs, MemberHasRecord
<1> QED
  BY <1>1, Inductive, PTL


-----------------------------------------------------------------------------
(* The contract of poll-dancer.h *)

(***************************************************************************)
(* epoll_to_events undoes events_to_epoll: what the kernel reports of a    *)
(* mask, ERR and HUP apart, stands for events of that mask, and for at     *)
(* least one.                                                              *)
(***************************************************************************)
LEMMA ReportedAreAsked ==
  ASSUME NEW events \in SUBSET PdEvents, NEW bits \in SUBSET (EpollBits \ {"ET"}),
         bits # {}, bits \subseteq EventsToEpoll(events) \cup {"ERR", "HUP"}
  PROVE  /\ EpollToEvents(bits) # {}
         /\ EpollToEvents(bits) \subseteq events \cup {"ERROR", "HANGUP"}
<1> DEFINE Event(b) == CASE b = "IN"   -> {"READ"}
                         [] b = "OUT"  -> {"WRITE"}
                         [] b = "ERR"  -> {"ERROR"}
                         [] b \in {"HUP", "RDHUP"} -> {"HANGUP"}
                         [] b = "PRI"  -> {"PRI"}
                         [] b = "ET"   -> {}
           Bits(e) == CASE e = "READ"   -> {"IN"}
                        [] e = "WRITE"  -> {"OUT"}
                        [] e = "ERROR"  -> {"ERR"}
                        [] e = "HANGUP" -> {"HUP", "RDHUP"}
                        [] e = "PRI"    -> {"PRI"}
                        [] e = "EDGE"   -> {"ET"}
<1>1. /\ EpollToEvents(bits) = UNION {Event(b) : b \in bits}
      /\ EventsToEpoll(events) = UNION {Bits(e) : e \in events}
  BY Zenon DEF EpollToEvents, EventsToEpoll
<1>2. \A b \in EpollBits \ {"ET"} : Event(b) # {}
  BY DEF EpollBits
<1>3. \A e \in PdEvents : \A b \in Bits(e) \ {"ET"} : Event(b) \subseteq {e}
  BY DEF PdEvents
<1>4. Event("ERR") = {"ERROR"} /\ Event("HUP") = {"HANGUP"}
  OBVIOUS
<1> HIDE DEF Event, Bits
<1>5. EpollToEvents(bits) # {}
  BY <1>1, <1>2
<1>6. ASSUME NEW b \in bits PROVE Event(b) \subseteq events \cup {"ERROR", "HANGUP"}
  <2>1. CASE b \in {"ERR", "HUP"}
    BY <1>4, <2>1
  <2>2. CASE b \notin {"ERR", "HUP"}
    <3>1. PICK e \in events : b \in Bits(e)
      BY <1>1, <2>2
    <3> QED
      BY <1>3, <3>1
  <2> QED
    BY <2>1, <2>2
<1> QED
  BY <1>1, <1>5, <1>6

(***************************************************************************)
(* When callbacks leave alone the watchers whose events are still to be    *)
(* processed, every entry of the batch stays deliverable.                  *)
(***************************************************************************)
LEMMA DispatchingStep ==
  ASSUME ~SameBatch, EInv, Dispatching, [EpollNext]_evars
  PROVE  Dispatching'
<1>0. \A e \in batch : e.ptr \in alive /\ e.ptr \in Watchers
  BY DEF EInv, EpollTypeOK, Dispatching
<1>1. ASSUME NEW f \in Fds, OpenFd(f) \/ CloseFd(f) PROVE Dispatching'
  BY <1>1 DEF OpenFd, CloseFd, Dispatching
<1>2. ASSUME UNCHANGED <<lpc, batch, cb>>,
             \A e \in batch : /\ e.ptr \in alive'
                              /\ active'[e.ptr] = active[e.ptr]
                              /\ wev'[e.ptr] = wev[e.ptr]
      PROVE  Dispatching'
  BY <1>2 DEF Dispatching
<1>3. ASSUME NEW w \in Watchers, NEW f \in Fds, NEW ev \in Masks, NEW fault,
             Create(w, f, ev, fault)
      PROVE  Dispatching'
  <2>1. \A e \in batch : e.ptr # w
    BY <1>0, <1>3 DEF Create, Fresh
  <2> QED
    BY <1>0, <1>2, <1>3, <2>1 DEF Create, EInv, EpollTypeOK
<1>4. ASSUME NEW w \in Watchers,
             \/ \E fault : Start(w, fault)
             \/ Stop(w)
             \/ \E ev \in Masks : Update(w, ev)
             \/ Destroy(w)
      PROVE  Dispatching'
  <2>1. \A e \in batch : e.ptr # w
    BY <1>4 DEF Start, Stop, Update, Destroy, MayTouch
  <2>2. UNCHANGED <<lpc, batch, cb>>
    BY <1>4 DEF Start, Stop, Update, Destroy
  <2>3. \A v \in Watchers : v # w =>
          (v \in alive => v \in alive') /\ active'[v] = active[v] /\ wev'[v] = wev[v]
    BY <1>4 DEF Start, Stop, Update, Destroy, Forget, EInv, EpollTypeOK
  <2> QED
    BY <1>0, <1>2, <2>1, <2>2, <2>3
<1>5. ASSUME NEW F \in SUBSET Fds, NEW bits \in [F -> SUBSET Conds],
             EpollWait(F, bits)
      PROVE  Dispatching'
  <2>1. ASSUME NEW f \in F
        PROVE  /\ mem[f].ptr \in alive
               /\ active[mem[f].ptr]
               /\ bits[f] # {}
               /\ bits[f] \subseteq
                    Conds \cap (EventsToEpoll(wev[mem[f].ptr]) \cup {"ERR", "HUP"})
    <3>1. mem[f] # NoEntry /\ bits[f] # {} /\ bits[f] \subseteq Reports(f)
      BY <1>5 DEF EpollWait
    <3>2. Member(f, mem[f])
      BY <3>1 DEF EInv, Membership
    <3>3. mem[f].events = EventsToEpoll(wev[mem[f].ptr])
      <4>1. PICK p \in alive \ stale : p = mem[f].ptr /\ active[p] /\ wfd[p] = f
        BY <3>2 DEF Member
      <4>2. mem[wfd[p]] = [ptr |-> p, events |-> EventsToEpoll(wev[p])]
        BY <4>1 DEF EInv, ActiveIsMember
      <4> QED
        BY <4>1, <4>2
    <3> QED
      BY <3>1, <3>2, <3>3 DEF Member, Reports
  <2>2. /\ batch' = {[fd |-> f, ptr |-> mem[f].ptr, bits |-> bits[f]] : f \in F}
        /\ lpc = "out" /\ lpc' = "dispatch"
        /\ UNCHANGED <<alive, active, wev, cb>>
    BY <1>5 DEF EpollWait
  <2> QED
    BY <2>1, <2>2 DEF Dispatching
<1>6. ASSUME NEW e \in batch, Dispatch(e) PROVE Dispatching'
  <2>1. e.ptr # NoWatcher
    BY <1>0, EpollAssumption
  <2> QED
    BY <1>6, <2>1 DEF Dispatch, Dispatching
<1>7. CASE CallbackReturn \/ LoopReturn
  BY <1>7 DEF CallbackReturn, LoopReturn, Dispatching, NoCb
<1>8. CASE UNCHANGED evars
  BY <1>8 DEF evars, Dispatching
<1> QED
  BY <1>1, <1>3, <1>4, <1>5, <1>6, <1>7, <1>8
     DEF EpollNext, AppStep, LoopStep


\* The state of each watcher as the contract sees it
Status == [w \in Watchers |-> IF w \notin alive THEN "none"
                             ELSE IF active[w] THEN "watching" ELSE "stopped"]

(***************************************************************************)
(* Every step is a step of the contract, or one that an application does   *)
(* not see: failed calls, descriptors opened and closed, the wait.         *)
(***************************************************************************)
LEMMA ContractStep ==
  ASSUME EInv, Dispatching, [EpollNext]_evars
  PROVE  [Contract!Next]_(Contract!cvars)
<1> DEFINE Same == Status' = Status /\ wev' = wev /\ cb' = cb
<1>0. ASSUME Same PROVE [Contract!Next]_(Contract!cvars)
  BY <1>0 DEF Contract!cvars, Status
<1>1. ASSUME NEW f \in Fds, OpenFd(f) \/ CloseFd(f)
      PROVE  [Contract!Next]_(Contract!cvars)
  BY <1>0, <1>1 DEF OpenFd, CloseFd, Status
<1>2. ASSUME NEW w \in Watchers, NEW f \in Fds, NEW ev \in Masks, NEW fault,
             Create(w, f, ev, fault)
      PROVE  [Contract!Next]_(Contract!cvars)
  <2> DEFINE n == InitWatcher(open, regs, mem, w, f, ev, fault)
  <2>1. /\ w \notin alive
        /\ IF n.ok THEN /\ alive' = alive \cup {w}
                        /\ wev' = [wev EXCEPT ![w] = ev]
                        /\ active' = [active EXCEPT ![w] = TRUE]
                   ELSE UNCHANGED <<alive, wev, active>>
        /\ cb' = cb
    BY <1>2 DEF Create, Fresh
  <2> HIDE DEF n
  <2>2. CASE n.ok
    <3>1. Status[w] = "none" /\ Status' = [Status EXCEPT ![w] = "watching"]
      BY <2>1, <2>2 DEF Status, EInv, EpollTypeOK
    <3>2. Contract!Create(w, ev)
      BY <2>1, <2>2, <3>1 DEF Contract!Create, Contract!Becomes, Status
    <3> QED
      BY <3>2 DEF Contract!Next
  <2>3. CASE ~n.ok
    BY <1>0, <2>1, <2>3 DEF Status
  <2> QED
    BY <2>2, <2>3
<1>3. ASSUME NEW w \in Watchers, NEW fault, Start(w, fault)
      PROVE  [Contract!Next]_(Contract!cvars)
  <2> DEFINE n == Register(open, regs, mem, w, wfd[w], wev[w], fault)
  <2>1. /\ w \in alive /\ ~active[w]
        /\ active' = [active EXCEPT ![w] = n.ok]
        /\ UNCHANGED <<alive, wev, cb>>
    BY <1>3 DEF Start, Usable
  <2> HIDE DEF n
  <2>2. CASE n.ok
    <3>1. Status[w] = "stopped" /\ Status' = [Status EXCEPT ![w] = "watching"]
      BY <2>1, <2>2 DEF Status, EInv, EpollTypeOK
    <3>2. Contract!Start(w)
      BY <2>1, <3>1 DEF Contract!Start, Contract!Becomes, Status
    <3> QED
      BY <3>2 DEF Contract!Next
  <2>3. CASE ~n.ok
    <3>1. Status' = Status
      BY <2>1, <2>3 DEF Status, EInv, EpollTypeOK
    <3> QED
      BY <1>0, <2>1, <3>1
  <2> QED
    BY <2>2, <2>3
<1>4. ASSUME NEW w \in Watchers, Stop(w)
      PROVE  [Contract!Next]_(Contract!cvars)
  <2> DEFINE n == StopWatcher(open, regs, mem, w, wfd[w], TRUE)
  <2>1. /\ w \in alive /\ active[w]
        /\ active' = [active EXCEPT ![w] = ~n.ok]
        /\ UNCHANGED <<alive, wev, cb>>
    BY <1>4 DEF Stop
  <2> HIDE DEF n
  <2>2. CASE n.ok
    <3>1. Status[w] = "watching" /\ Status' = [Status EXCEPT ![w] = "stopped"]
      BY <2>1, <2>2 DEF Status, EInv, EpollTypeOK
    <3>2. Contract!Stop(w)
      BY <2>1, <3>1 DEF Contract!Stop, Contract!Becomes, Status
    <3> QED
      BY <3>2 DEF Contract!Next
  <2>3. CASE ~n.ok
    <3>1. Status' = Status
      BY <2>1, <2>3 DEF Status, EInv, EpollTypeOK
    <3> QED
      BY <1>0, <2>1, <3>1
  <2> QED
    BY <2>2, <2>3
<1>5. ASSUME NEW w \in Watchers, NEW ev \in Masks, Update(w, ev)
      PROVE  [Contract!Next]_(Contract!cvars)
  <2>1. w \in alive /\ Status[w] = "watching" /\ Status' = Status
    BY <1>5 DEF Update, Usable, EInv, EpollTypeOK, Status
  <2>2. Contract!Update(w, ev)
    BY <1>5, <2>1 DEF Update, Contract!Update, Status
  <2> QED
    BY <2>2 DEF Contract!Next
<1>6. ASSUME NEW w \in Watchers, Destroy(w)
      PROVE  [Contract!Next]_(Contract!cvars)
  <2>1. Status[w] # "none" /\ Status' = [Status EXCEPT ![w] = "none"]
    BY <1>6 DEF Destroy, Forget, EInv, EpollTypeOK, Status
  <2>2. Contract!Destroy(w)
    BY <1>6, <2>1
       DEF Destroy, Forget, Contract!Destroy, Contract!Becomes, Status
  <2> QED
    BY <2>2 DEF Contract!Next
<1>7. ASSUME NEW F \in SUBSET Fds, NEW bits \in [F -> SUBSET Conds],
             EpollWait(F, bits)
      PROVE  [Contract!Next]_(Contract!cvars)
  BY <1>0, <1>7 DEF EpollWait, Status
<1>8. ASSUME NEW e \in batch, Dispatch(e)
      PROVE  [Contract!Next]_(Contract!cvars)
  <2>1. UNCHANGED <<alive, active, wev>> /\ Status' = Status
    BY <1>8 DEF Dispatch, Status
  <2>2. CASE cb' = cb
    BY <1>0, <2>1, <2>2
  <2>3. CASE cb' # cb
    <3> DEFINE w == e.ptr
    <3>1. cb' = [w |-> w, events |-> EpollToEvents(e.bits)] /\ lpc = "dispatch"
      BY <1>8, <2>3 DEF Dispatch
    <3>2. w \in Watchers /\ Status[w] = "watching" /\ cb = NoCb
      BY <3>1 DEF Dispatching, EInv, EpollTypeOK, Status
    <3>3. /\ wev[w] \in SUBSET PdEvents
          /\ e.bits \in SUBSET (EpollBits \ {"ET"})
          /\ e.bits # {}
          /\ e.bits \subseteq EventsToEpoll(wev[w]) \cup {"ERR", "HUP"}
      BY <3>2, EpollAssumption DEF Dispatching, EInv, EpollTypeOK
    <3>4. /\ EpollToEvents(e.bits) # {}
          /\ EpollToEvents(e.bits) \subseteq wev[w] \cup {"ERROR", "HANGUP"}
      BY <3>3, ReportedAreAsked
    <3>5. Contract!Deliver(w)
      BY <2>1, <3>1, <3>2, <3>4
         DEF Contract!Deliver, Contract!Quiet, NoCb, Status
    <3> QED
      BY <3>2, <3>5 DEF Contract!Next
  <2> QED
    BY <2>2, <2>3
<1>9. CASE CallbackReturn
  <2>1. cb # NoCb /\ cb' = NoCb /\ Status' = Status /\ wev' = wev
    BY <1>9 DEF CallbackReturn, Dispatching, NoCb, Status
  <2>2. Contract!Return
    BY <2>1 DEF Contract!Return, Contract!Quiet, NoCb, Status
  <2> QED
    BY <2>2 DEF Contract!Next
<1>10. CASE LoopReturn \/ UNCHANGED evars
  BY <1>0, <1>10 DEF LoopReturn, evars, Status
<1> QED
  BY <1>1, <1>2, <1>3, <1>4, <1>5, <1>6, <1>7, <1>8, <1>9, <1>10
     DEF EpollNext, AppStep, LoopStep

(***************************************************************************)
(* The watchers over epoll implement the contract of poll-dancer.h, as     *)
(* long as callbacks do not stop, update or destroy a watcher whose event  *)
(* is waiting in the same batch.                                           *)
(***************************************************************************)
THEOREM Refinement ==
  ASSUME Rules, ~SameBatch
  PROVE  EpollSpec => ImplementsContract
<1>1. EpollInit => Dispatching /\ Contract!Init
  BY DEF EpollInit, Dispatching, NoCb, Contract!Init, Contract!Quiet
<1>2. EInv /\ Dispatching /\ [EpollNext]_evars => Dispatching'
  BY DispatchingStep
<1>3. EInv /\ Dispatching /\ [EpollNext]_evars => [Contract!Next]_(Contract!cvars)
  BY ContractStep
<1> QED
  BY <1>1, <1>2, <1>3, Inductive, PTL
     DEF EpollSpec, ImplementsContract, Contract!Spec

=============================================================================
