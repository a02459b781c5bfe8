----------------------------- MODULE IocpProofs -----------------------------
(***************************************************************************)
(* Proofs about Iocp, second part: the reads of watchers, for any number   *)
(* of threads, watchers and timers and queues and batches of any length,   *)
(* whatever the interleaving of calls with the handling of reads.  The     *)
(* inductive invariant speaks of one watcher at a time: where its read is, *)
(* what its flags claim, and how far the call on it has come.              *)
(***************************************************************************)
EXTENDS IocpPortProofs, FiniteSetTheorems

\* The application and the kernel keep the rules that memory depends on.  A
\* callback may destroy its own watcher, read again with pd_watcher_update, or
\* leave bytes in the buffer; READ may be switched off and on again while a
\* cancelled read is on its way, and an update may fail to issue its read.
Careful ==
  /\ Liberties \subseteq {"ownCallback", "reupdate", "undrained", "toggle", "reissue"}
  /\ Flushed

\* What the accounting of reads needs besides: an update issues the read it
\* sets pending_operation for
ReissueWorks == "reissue" \notin Liberties

\* What keeps a watcher armed: READ is not switched on again either while a
\* cancelled read is on its way
Steady == Liberties \cap {"toggle", "reissue"} = {}

-----------------------------------------------------------------------------
(* What a sequence of packets and the calls say about one watcher *)

ReadIn(f, w) == \E i \in DOMAIN f : ReadPacket(w, f[i])

WriteIn(f, w) == \E i \in DOMAIN f : f[i].kind = "write" /\ f[i].obj = w

\* A cancelled read of w is among the packets
StaleIn(f, w) ==
  \E i \in DOMAIN f : ReadPacket(w, f[i]) /\ f[i].res = "cancelled"

OneReadIn(f, w) ==
  \A i, j \in DOMAIN f : ReadPacket(w, f[i]) /\ ReadPacket(w, f[j]) => i = j

\* The calls c are of their type, and no object is in two
ProperCalls(c) ==
  /\ c \in [Threads -> Calls]
  /\ \A th, u \in Threads : c[th].obj = c[u].obj => th = u \/ c[th] = Idle

Busy(c, w) == \E th \in Threads : c[th].obj = w

Caller(c, w) == CHOOSE th \in Threads : c[th].obj = w

\* How far the call on w has come; the steps of iocp_drain_sync are one stage
Stage(c, w) ==
  IF Busy(c, w)
    THEN IF c[Caller(c, w)].at \in {"post", "drain", "drained"}
           THEN "wait" ELSE c[Caller(c, w)].at
    ELSE "idle"

\* What the call on w goes on to
Goal(c, w) == IF Busy(c, w) THEN c[Caller(c, w)].next ELSE "idle"

\* Whether the loop thread is in the call on w, or another, or none
Whose(c, w) ==
  IF Busy(c, w)
    THEN IF Caller(c, w) = LoopThread THEN "loop" ELSE "worker"
    ELSE "nobody"

-----------------------------------------------------------------------------
(* The invariant of one watcher *)

\* A read of w is with the kernel or its packet on the way
Flying(w) == reads[w] # 0 \/ ReadIn(Flow, w)

\* The loop thread is between two steps that rest on watcher_data of w
AtWork(w) == cur.obj = w /\ lpc \in {"examined", "issue"}

\* A read of w is being handled, or its re-arm
Held(w) ==
  /\ ReadPacket(w, cur)
  /\ lpc = "examined" \/ cur.res = "READ"

\* No read of w can reach it any more
Over(w) == ~Flying(w) /\ ~ReadPacket(w, cur)

\* What exists: watcher_data and its flags within an allocated watcher, on
\* which alone there are calls
Allocated(w) ==
  /\ w \in active => w \in alive
  /\ w \in ptr \cup pending \cup stopping \cup avail => w \in alive /\ w \in datum
  /\ Stage(call, w) # "idle" => w \in alive
  /\ Stage(call, w) = "arm" =>
       /\ w \in active /\ w \in datum /\ w \notin stopping
       /\ Whose(call, w) = "loop" /\ Goal(call, w) = "free"

\* There is one read at most: in the kernel, on its way or being handled
SingleRead(w) ==
  /\ reads[w] \in 0..1
  /\ OneReadIn(Flow, w)
  /\ reads[w] # 0 => ~ReadIn(Flow, w)
  /\ Held(w) => ~Flying(w)

\* Which reads belong to which state of the watcher.  A teardown that sets
\* stopping while a read is handled has yet to come to its barrier, or waits
\* there; a re-arm that is about to issue a read is not overlooked.
Backed(w) ==
  /\ reads[w] # 0 =>
       \/ Stage(call, w) = "arm"
       \/ /\ w \in ptr /\ w \in pending
          /\ w \in stopping => Stage(call, w) = "cancel"
  /\ ReadIn(Flow, w) =>
       w \in alive /\ (w \in ptr => w \in pending \/ Stage(call, w) = "arm")
  /\ ReadPacket(w, cur) => w \in alive
  /\ AtWork(w) =>
       /\ w \in ptr /\ w \in pending
       /\ w \in stopping =>
            Stage(call, w) = "cancel" \/ (lpc = "examined" /\ Stage(call, w) = "wait")

\* pending_operation tells of a read
Accounted(w) ==
  /\ ReissueWorks /\ w \in ptr /\ w \in pending =>
       w \in stopping \/ Flying(w) \/ AtWork(w)
  /\ Stage(call, w) = "arm" => Flying(w)

\* A registered watcher is active or about to be unregistered, and no longer
\* registered when it is about to be freed
Registered(w) ==
  /\ w \in ptr /\ w \notin stopping =>
       w \in active \/ Stage(call, w) \in {"unregister", "mark"}
  /\ w \in active =>
       /\ Stage(call, w) = "arm" \/ (w \in ptr /\ w \notin stopping)
       /\ Stage(call, w) \in {"idle", "arm"}
  /\ Stage(call, w) = "unregister" /\ Goal(call, w) # "free" =>
       w \in ptr /\ w \notin stopping
  /\ Stage(call, w) = "mark" => w \in ptr /\ w \notin stopping
  /\ Stage(call, w) # "arm" /\ Goal(call, w) = "free" =>
       w \notin ptr \/ w \in stopping

\* Client writes are over before the watcher is stopped
WritesOver(w) == w \notin active => writes[w] = 0 /\ ~WriteIn(Flow, w)

\* A watcher is about to be freed only when its read is over and handled, or
\* when a barrier is still to come that sees to it; a call that frees it while
\* a read is handled is found out in the last unregistration
Freeing(w) ==
  /\ Stage(call, w) # "arm" /\ Goal(call, w) = "free" =>
       /\ ~Flying(w)
       /\ ReadPacket(w, cur) => Stage(call, w) = "unregister"
  /\ Stage(call, w) = "done" /\ Goal(call, w) = "cleanup" => ~Flying(w)
  /\ Stage(call, w) \in {"unregister", "mark", "cancel"} /\ Goal(call, w) = "cleanup" =>
       ~Flying(w) \/ (Whose(call, w) = "worker" /\ ran = TRUE)
  /\ Stage(call, w) = "wait" => reads[w] = 0

\* A wanted read is in flight or being handled, and not cancelled
Wanted(w) ==
  Steady /\ w \in active /\ w \in wants =>
    /\ ~StaleIn(Flow, w)
    /\ ~(ReadPacket(w, cur) /\ cur.res = "cancelled")
    /\ w \notin ended => Flying(w) \/ Held(w)

WatcherOK(w) ==
  /\ Allocated(w) /\ SingleRead(w) /\ Backed(w) /\ Accounted(w) /\ Registered(w)
  /\ WritesOver(w) /\ Freeing(w) /\ Wanted(w)

\* What is left of it once a thread has overtaken the handling of a read: no
\* call begins any more, and a watcher that is still active goes on reading
RacedOK(w) ==
  /\ Stage(call, w) # "arm"
  /\ Stage(call, w) \in {"unregister", "mark", "cancel"} => Goal(call, w) = "free"
  /\ ReissueWorks /\ w \in ptr /\ w \in pending =>
       w \in stopping \/ Flying(w) \/ AtWork(w)
  /\ w \in active =>
       /\ Stage(call, w) = "idle" /\ w \in ptr /\ w \notin stopping
       /\ Steady =>
            /\ ~StaleIn(Flow, w)
            /\ ~(ReadPacket(w, cur) /\ cur.res = "cancelled")
            /\ \/ w \in ended
               \/ w \in pending /\ (Flying(w) \/ AtWork(w))
               \/ ReadPacket(w, cur) /\ cur.res = "READ"

Fine(w) == IF w \in raced THEN RacedOK(w) ELSE WatcherOK(w)

ReadTypes ==
  /\ alive \subseteq Watchers /\ active \subseteq Watchers /\ wants \subseteq Watchers
  /\ ended \subseteq Watchers /\ ptr \subseteq Watchers /\ datum \subseteq Watchers
  /\ pending \subseteq Watchers /\ stopping \subseteq Watchers /\ avail \subseteq Watchers
  /\ raced \subseteq Watchers
  /\ reads \in [Watchers -> Nat] /\ writes \in [Watchers -> 0..1]

RInv ==
  /\ ReadTypes
  /\ \A w \in Watchers : Fine(w)
  /\ \A w \in Watchers : w \notin raced => Barrier({w})

-----------------------------------------------------------------------------
(* How a step changes what is said about a watcher *)

\* What a step that leaves w alone keeps: its flags and reads, its packets, the
\* call on it, and whether the loop thread handles it
SameFlags(w) ==
  /\ w \in alive' <=> w \in alive
  /\ w \in active' <=> w \in active
  /\ w \in wants' <=> w \in wants
  /\ w \in ended' <=> w \in ended
  /\ w \in ptr' <=> w \in ptr
  /\ w \in datum' <=> w \in datum
  /\ w \in pending' <=> w \in pending
  /\ w \in stopping' <=> w \in stopping
  /\ w \in avail' <=> w \in avail
  /\ reads'[w] = reads[w]
  /\ writes'[w] = writes[w]
  /\ w \in raced' <=> w \in raced

SameFlow(w) ==
  /\ ReadIn(Flow', w) <=> ReadIn(Flow, w)
  /\ WriteIn(Flow', w) <=> WriteIn(Flow, w)
  /\ StaleIn(Flow', w) <=> StaleIn(Flow, w)
  /\ OneReadIn(Flow, w) => OneReadIn(Flow', w)

SameCall(w) ==
  /\ Stage(call', w) = Stage(call, w)
  /\ Goal(call', w) = Goal(call, w)
  /\ Whose(call', w) = Whose(call, w)

SameHandling(w) ==
  /\ IF cur.obj = w THEN cur' = cur /\ lpc' = lpc ELSE cur'.obj # w
  /\ ran = TRUE => ran' = TRUE

Untouched(w) == SameFlags(w) /\ SameFlow(w) /\ SameCall(w) /\ SameHandling(w)

LEMMA UntouchedOK ==
  ASSUME NEW w \in Watchers, Fine(w), Untouched(w)
  PROVE  Fine(w)'
<1>1. \/ cur.obj = w /\ cur' = cur /\ lpc' = lpc
      \/ cur.obj # w /\ cur'.obj # w
  BY DEF Untouched, SameHandling
<1>2. /\ Held(w)' = Held(w) /\ Flying(w)' = Flying(w) /\ Over(w)' = Over(w)
      /\ AtWork(w)' = AtWork(w) /\ ReadPacket(w, cur)' = ReadPacket(w, cur)
  BY <1>1 DEF Held, Flying, AtWork, Over, Untouched, SameFlags, SameFlow, ReadPacket
<1>3. /\ (ReadPacket(w, cur) /\ cur.res = "cancelled")'
           = (ReadPacket(w, cur) /\ cur.res = "cancelled")
      /\ (ReadPacket(w, cur) /\ cur.res = "READ")' = (ReadPacket(w, cur) /\ cur.res = "READ")
      /\ AtWork(w) => (lpc' = lpc)
  BY <1>1 DEF ReadPacket, AtWork
<1>4. CASE w \in raced
  <2>1. RacedOK(w)'
    BY <1>2, <1>3, <1>4
       DEF Fine, RacedOK, Untouched, SameFlags, SameFlow, SameCall, ReissueWorks, Steady
  <2> QED
    BY <1>4, <2>1 DEF Fine, Untouched, SameFlags
<1>5. CASE w \notin raced
  <2>1. WatcherOK(w)'
    BY <1>2, <1>3, <1>5
       DEF Fine, WatcherOK, Untouched, SameFlags, SameFlow, SameCall, SameHandling,
           Allocated, SingleRead, Backed, Accounted, Registered, WritesOver,
           Freeing, Wanted, ReissueWorks, Steady
  <2> QED
    BY <1>5, <2>1 DEF Fine, Untouched, SameFlags
<1> QED
  BY <1>4, <1>5

LEMMA PostedFlow ==
  ASSUME PortOK, NEW p, Posted(p), NEW w
  PROVE  /\ p.obj # w => SameFlow(w)
         /\ ReadIn(Flow', w) <=> ReadIn(Flow, w) \/ ReadPacket(w, p)
         /\ WriteIn(Flow', w) <=> WriteIn(Flow, w) \/ (p.kind = "write" /\ p.obj = w)
         /\ StaleIn(Flow', w) <=>
              StaleIn(Flow, w) \/ (ReadPacket(w, p) /\ p.res = "cancelled")
         /\ OneReadIn(Flow, w) /\ (ReadPacket(w, p) => ~ReadIn(Flow, w)) =>
              OneReadIn(Flow', w)
<1> DEFINE n == Len(Flow)
           f == Flow
           g == Flow'
<1>1. /\ n \in Nat /\ DOMAIN f = 1..n
      /\ DOMAIN g = 1..n + 1
      /\ \A i \in 1..n : g[i] = f[i]
      /\ g[n + 1] = p
  BY PostedAt DEF PortOK
<1> HIDE DEF n, f, g
<1>2. n + 1 \in DOMAIN g /\ DOMAIN f \subseteq DOMAIN g
      /\ \A i \in DOMAIN g : i \in DOMAIN f \/ i = n + 1
  BY <1>1
<1>3. ReadIn(g, w) <=> ReadIn(f, w) \/ ReadPacket(w, p)
  BY <1>1, <1>2 DEF ReadIn
<1>4. WriteIn(g, w) <=> WriteIn(f, w) \/ (p.kind = "write" /\ p.obj = w)
  BY <1>1, <1>2 DEF WriteIn
<1>5. StaleIn(g, w) <=> StaleIn(f, w) \/ (ReadPacket(w, p) /\ p.res = "cancelled")
  BY <1>1, <1>2 DEF StaleIn
<1>6. ASSUME OneReadIn(f, w), ReadPacket(w, p) => ~ReadIn(f, w)
      PROVE  OneReadIn(g, w)
  BY <1>1, <1>2, <1>6 DEF OneReadIn, ReadIn
<1>7. p.obj # w => ~ReadPacket(w, p)
  BY DEF ReadPacket
<1> QED
  BY <1>3, <1>4, <1>5, <1>6, <1>7 DEF SameFlow, f, g

LEMMA DispatchedFlow ==
  ASSUME PortOK, Dispatched, NEW p, p = Head(batch), NEW w
  PROVE  /\ WellFormed(p) /\ p \in Packets
         /\ p.obj # w => SameFlow(w)
         /\ ReadIn(Flow, w) <=> ReadIn(Flow', w) \/ ReadPacket(w, p)
         /\ WriteIn(Flow', w) => WriteIn(Flow, w)
         /\ p.kind = "write" /\ p.obj = w => WriteIn(Flow, w)
         /\ StaleIn(Flow, w) <=>
              StaleIn(Flow', w) \/ (ReadPacket(w, p) /\ p.res = "cancelled")
         /\ p.kind = "write" =>
              /\ StaleIn(Flow', w) <=> StaleIn(Flow, w)
              /\ ReadIn(Flow', w) <=> ReadIn(Flow, w)
         /\ OneReadIn(Flow, w) => OneReadIn(Flow', w)
         /\ OneReadIn(Flow, w) /\ ReadPacket(w, p) => ~ReadIn(Flow', w)
<1> DEFINE n == Len(Flow)
           f == Flow
           g == Flow'
<1>1. /\ n \in Nat \ {0} /\ DOMAIN f = 1..n
      /\ DOMAIN g = 1..n - 1
      /\ f[1] = p
      /\ \A i \in 1..n - 1 : g[i] = f[i + 1]
  BY DispatchedAt DEF PortOK
<1>0. WellFormed(p) /\ p \in Packets
  <2>1. 1 \in DOMAIN Flow
    BY <1>1
  <2> QED
    BY <1>1, <2>1, FlowType DEF PortOK
<1> HIDE DEF n, f, g
<1>2. 1 \in DOMAIN f
  BY <1>1
<1>3. ASSUME NEW i \in DOMAIN g
      PROVE  i \in Int /\ i + 1 \in DOMAIN f /\ g[i] = f[i + 1] /\ i + 1 # 1
  BY <1>1
<1>4. ASSUME NEW i \in DOMAIN f, i # 1
      PROVE  i - 1 \in DOMAIN g /\ g[i - 1] = f[i]
  <2>1. i - 1 \in 1..n - 1 /\ (i - 1) + 1 = i
    BY <1>1, <1>4
  <2> QED
    BY <1>1, <2>1
<1>5. ReadIn(f, w) <=> ReadIn(g, w) \/ ReadPacket(w, p)
  BY <1>1, <1>2, <1>3, <1>4 DEF ReadIn
<1>6. WriteIn(g, w) => WriteIn(f, w)
  BY <1>3 DEF WriteIn
<1>7. WriteIn(f, w) <=> WriteIn(g, w) \/ (p.kind = "write" /\ p.obj = w)
  BY <1>1, <1>2, <1>3, <1>4 DEF WriteIn
<1>8. StaleIn(f, w) <=> StaleIn(g, w) \/ (ReadPacket(w, p) /\ p.res = "cancelled")
  BY <1>1, <1>2, <1>3, <1>4 DEF StaleIn
<1>9. ASSUME OneReadIn(f, w) PROVE OneReadIn(g, w)
  <2> SUFFICES ASSUME NEW i \in DOMAIN g, NEW j \in DOMAIN g,
                      ReadPacket(w, g[i]), ReadPacket(w, g[j])
               PROVE  i = j
    BY DEF OneReadIn
  <2>1. i + 1 = j + 1
    BY <1>3, <1>9 DEF OneReadIn
  <2> QED
    BY <2>1, <1>3
<1>10. ASSUME OneReadIn(f, w), ReadPacket(w, p) PROVE ~ReadIn(g, w)
  BY <1>1, <1>2, <1>3, <1>10 DEF OneReadIn, ReadIn
<1>11. /\ p.obj # w => ~ReadPacket(w, p)
       /\ p.kind = "write" => ~ReadPacket(w, p)
  BY DEF ReadPacket
<1> QED
  BY <1>0, <1>5, <1>6, <1>7, <1>8, <1>9, <1>10, <1>11 DEF SameFlow, f, g

\* Cancelled packets are reads
LEMMA StaleIsRead ==
  ASSUME NEW f, NEW w, StaleIn(f, w)
  PROVE  ReadIn(f, w)
BY DEF StaleIn, ReadIn

\* A call on w in terms of its thread
LEMMA CallOn ==
  ASSUME NEW c, ProperCalls(c), NEW w \in Watchers, NEW th \in Threads, c[th].obj = w
  PROVE  /\ Busy(c, w)
         /\ c[th] \in WatcherCalls
         /\ Stage(c, w) = IF c[th].at \in {"post", "drain", "drained"}
                            THEN "wait" ELSE c[th].at
         /\ Goal(c, w) = c[th].next
         /\ Whose(c, w) = IF th = LoopThread THEN "loop" ELSE "worker"
<1>1. Busy(c, w)
  BY DEF Busy
<1>2. c[th] \in WatcherCalls
  BY Apart DEF ProperCalls, Calls, Idle, TimerCalls, WatcherCalls
<1>3. Caller(c, w) \in Threads /\ c[Caller(c, w)].obj = w
  BY DEF Caller
<1>4. c[th] # Idle
  BY Apart DEF Idle
<1>5. Caller(c, w) = th
  BY <1>3, <1>4 DEF ProperCalls
<1> QED
  BY <1>1, <1>2, <1>5 DEF Stage, Goal, Whose

LEMMA NoCallOn ==
  ASSUME NEW c, NEW w, \A th \in Threads : c[th].obj # w
  PROVE  ~Busy(c, w) /\ Stage(c, w) = "idle" /\ Goal(c, w) = "idle" /\ Whose(c, w) = "nobody"
BY DEF Busy, Stage, Goal, Whose

\* A watcher is in a call or not
LEMMA StageCases ==
  ASSUME NEW c, ProperCalls(c), NEW w \in Watchers
  PROVE  \/ /\ Stage(c, w) = "idle" /\ Goal(c, w) = "idle" /\ Whose(c, w) = "nobody"
            /\ \A th \in Threads : c[th].obj # w
         \/ /\ Stage(c, w) \in {"arm", "unregister", "mark", "cancel", "done", "wait"}
            /\ Goal(c, w) \in {"idle", "cleanup", "free"}
            /\ Whose(c, w) \in {"loop", "worker"}
            /\ \E th \in Threads : c[th].obj = w
<1>1. CASE \A th \in Threads : c[th].obj # w
  BY <1>1, NoCallOn
<1>2. ASSUME NEW th \in Threads, c[th].obj = w
      PROVE  /\ Stage(c, w) \in {"arm", "unregister", "mark", "cancel", "done", "wait"}
             /\ Goal(c, w) \in {"idle", "cleanup", "free"}
             /\ Whose(c, w) \in {"loop", "worker"}
  BY <1>2, CallOn DEF WatcherCalls
<1> QED
  BY <1>1, <1>2

\* A step in which thread th alone moves leaves the calls on other objects
LEMMA OtherCalls ==
  ASSUME ProperCalls(call), ProperCalls(call'), NEW th \in Threads,
         \A u \in Threads \ {th} : call'[u] = call[u],
         NEW w \in Watchers, call[th].obj # w, call'[th].obj # w
  PROVE  SameCall(w)
<1>1. CASE \A u \in Threads : call[u].obj # w
  <2>1. \A u \in Threads : call'[u].obj # w
    BY <1>1
  <2> QED
    BY <1>1, <2>1, NoCallOn DEF SameCall
<1>2. ASSUME NEW u \in Threads, call[u].obj = w PROVE SameCall(w)
  <2>1. call'[u] = call[u]
    BY <1>2
  <2>2. /\ Stage(call, w) = IF call[u].at \in {"post", "drain", "drained"}
                              THEN "wait" ELSE call[u].at
        /\ Goal(call, w) = call[u].next
        /\ Whose(call, w) = IF u = LoopThread THEN "loop" ELSE "worker"
    BY <1>2, CallOn
  <2>3. /\ Stage(call', w) = IF call'[u].at \in {"post", "drain", "drained"}
                               THEN "wait" ELSE call'[u].at
        /\ Goal(call', w) = call'[u].next
        /\ Whose(call', w) = IF u = LoopThread THEN "loop" ELSE "worker"
    BY <1>2, <2>1, CallOn
  <2> QED
    BY <2>1, <2>2, <2>3 DEF SameCall
<1> QED
  BY <1>1, <1>2


-----------------------------------------------------------------------------
(* What the actions read of the port *)

LEMMA WriteInPort ==
  ASSUME PortOK, NEW w \in Watchers
  PROVE  InPort("write", w) <=> WriteIn(Flow, w)
<1>1. Outstanding = {Flow[i] : i \in DOMAIN Flow} \cup {cur}
  BY OutstandingFlow DEF PortOK
<1>2. ASSUME NEW i \in DOMAIN Flow, Flow[i].kind = "write"
      PROVE  Flow[i] # cur
  <2>1. Flow[i].res = "none"
    BY <1>2 DEF PortOK, WellFormed
  <2> QED
    BY <1>2, <2>1 DEF PortOK, Handling, NoPacket, Packet
<1> QED
  BY <1>1, <1>2 DEF InPort, WriteIn

LEMMA ReadInPort ==
  ASSUME PortOK, NEW w \in Watchers, SingleRead(w)
  PROVE  InPort("read", w) <=> ReadIn(Flow, w)
<1>1. Outstanding = {Flow[i] : i \in DOMAIN Flow} \cup {cur}
  BY OutstandingFlow DEF PortOK
<1>2. ASSUME NEW i \in DOMAIN Flow, ReadPacket(w, Flow[i])
      PROVE  Flow[i] # cur
  <2>1. Flow[i].res \in {"data", "eof", "error", "cancelled"}
    BY <1>2 DEF PortOK, WellFormed, ReadPacket
  <2>2. ReadIn(Flow, w)
    BY <1>2 DEF ReadIn
  <2>3. ~Held(w)
    BY <2>2 DEF SingleRead, Flying
  <2>4. CASE Flow[i] = cur
    <3>1. lpc = "examined"
      BY <1>2, <2>1, <2>4 DEF PortOK, Handling, NoPacket, Packet, ReadPacket
    <3> QED
      BY <1>2, <2>3, <2>4, <3>1 DEF Held
  <2> QED
    BY <2>4
<1>3. \A p : ReadPacket(w, p) <=> p.kind = "read" /\ p.obj = w
  BY DEF ReadPacket
<1> QED
  BY <1>1, <1>2, <1>3 DEF InPort, ReadIn

LEMMA UnderWay ==
  ASSUME PortOK, ReadTypes, NEW w \in Watchers, SingleRead(w)
  PROVE  InFlight(w) <=> Flying(w)
<1>1. reads[w] > 0 <=> reads[w] # 0
  BY DEF ReadTypes
<1> QED
  BY <1>1, ReadInPort DEF InFlight, Flying

\* Of a watcher that may have two reads, the packet being handled may stand
\* for another one in the port
LEMMA UnderWayOrHandled ==
  ASSUME PortOK, ReadTypes, NEW w \in Watchers, Flying(w)
  PROVE  InFlight(w) \/ (lpc = "examined" /\ ReadPacket(w, cur))
<1>1. reads[w] # 0 => reads[w] > 0
  BY DEF ReadTypes
<1>2. ASSUME NEW i \in DOMAIN Flow, ReadPacket(w, Flow[i])
      PROVE  InPort("read", w) \/ (lpc = "examined" /\ ReadPacket(w, cur))
  <2>1. Flow[i] \in Outstanding
    BY <1>2, OutstandingFlow DEF PortOK
  <2>2. CASE Flow[i] # cur
    BY <1>2, <2>1, <2>2 DEF InPort, ReadPacket
  <2>3. CASE Flow[i] = cur
    <3>1. cur.res \in {"data", "eof", "error", "cancelled"} /\ cur.kind = "read"
      BY <1>2, <2>3 DEF PortOK, WellFormed, ReadPacket
    <3> QED
      BY <1>2, <2>3, <3>1 DEF PortOK, Handling, NoPacket, Packet
  <2> QED
    BY <2>2, <2>3
<1> QED
  BY <1>1, <1>2 DEF Flying, ReadIn, InFlight

LEMMA CancelledIn ==
  ASSUME PortOK, NEW w \in Watchers
  PROVE  Cancelled(w) <=> StaleIn(Flow, w) \/ (ReadPacket(w, cur) /\ cur.res = "cancelled")
<1>1. Outstanding = {Flow[i] : i \in DOMAIN Flow} \cup {cur}
  BY OutstandingFlow DEF PortOK
<1>2. \A i \in DOMAIN Flow : Flow[i] \in Packets
  BY FlowType DEF PortOK
<1>3. \A p \in Packets :
        p = Packet("read", w, "cancelled") <=> ReadPacket(w, p) /\ p.res = "cancelled"
  BY DEF Packet, Packets, ReadPacket
<1>4. cur \in Packets
  BY DEF PortOK
<1> QED
  BY <1>1, <1>2, <1>3, <1>4 DEF Cancelled, StaleIn

-----------------------------------------------------------------------------
(* The steps on watchers, one by one *)

\* What is known of a step before it is looked at
Given ==
  /\ Careful /\ PInv
  /\ ReadTypes
  /\ \A w \in Watchers : Fine(w)
  /\ \A w \in Watchers : w \notin raced => Barrier({w})
  /\ PortOK' /\ CallsOK'

Kept == ReadTypes' /\ (\A w \in Watchers : Fine(w)')

LEMMA Properly ==
  ASSUME Given
  PROVE  ProperCalls(call) /\ ProperCalls(call')
BY DEF Given, PInv, CallsOK, ProperCalls, Calls

LEMMA OneTouched ==
  ASSUME Given, NEW w \in Watchers, ReadTypes', Fine(w)',
         \A v \in Watchers \ {w} : Untouched(v)
  PROVE  Kept
BY UntouchedOK DEF Given, Kept

\* The loop thread is in a call only between two waits or in a callback; and
\* it has been running when it handles a packet
LEMMA LoopBusy ==
  ASSUME Given, NEW th \in Threads, NEW w \in Watchers, MayCall(th, w) \/ call[th] # Idle
  PROVE  /\ th = LoopThread => lpc \in {"out", "callback"}
         /\ AtWork(w) => th # LoopThread
         /\ ReadPacket(w, cur) => ran = TRUE
         /\ AtWork(w) => ReadPacket(w, cur)
<1>1. th = LoopThread => lpc \in {"out", "callback"}
  BY DEF Given, PInv, PortOK, MayCall
<1>2. ReadPacket(w, cur) => lpc # "out"
  BY Apart DEF Given, PInv, PortOK, Handling, NoPacket, ReadPacket
<1>3. AtWork(w) => ReadPacket(w, cur)
  BY Apart DEF Given, PInv, PortOK, Handling, Packet, ReadPacket, AtWork
<1> QED
  BY <1>1, <1>2, <1>3 DEF AtWork, Given, PInv, PortOK

\* Both cases of the invariant
LEMMA FineCases ==
  ASSUME NEW w \in Watchers, w \notin raced' => WatcherOK(w)', w \in raced' => RacedOK(w)'
  PROVE  Fine(w)'
BY DEF Fine

\* pd_watcher_start
LEMMA StartKeeps ==
  ASSUME Given, NEW th \in Threads, NEW w \in Watchers, w \notin raced, Start(th, w)
  PROVE  Kept
<1>1. /\ Flow' = Flow /\ call' = call /\ cur' = cur /\ lpc' = lpc /\ ran' = ran
      /\ UNCHANGED <<life, datum, flags, reads, writes, raced>> /\ ptr' = ptr \ {w}
  BY DEF Start, pvars, Flow
<1>2. Stage(call, w) = "idle" /\ Goal(call, w) = "idle"
  BY NoCallOn DEF Start, MayCall
<1>3. WatcherOK(w)
  BY DEF Given, Fine
<1>5. w \notin active /\ w \in alive
  BY DEF Start
<1>4. ~AtWork(w)
  BY <1>2, <1>3, <1>5 DEF WatcherOK, Backed, Registered
<1>6. WatcherOK(w)'
  BY <1>1, <1>2, <1>3, <1>4, <1>5
     DEF life, flags, WatcherOK, Allocated, SingleRead, Backed, Accounted, Registered,
         WritesOver, Freeing, Wanted, Held, Flying, AtWork, Over, ReadPacket
<1>7. ReadTypes'
  BY <1>1 DEF Given, ReadTypes, life, flags
<1>8. \A v \in Watchers \ {w} : Untouched(v)
  BY <1>1
     DEF Untouched, SameFlags, SameFlow, SameCall, SameHandling, life, flags
<1>9. Fine(w)'
  BY <1>1, <1>6 DEF Fine
<1> QED
  BY <1>7, <1>8, <1>9, OneTouched

\* A call on w begins
LEMMA Begins ==
  ASSUME Given, NEW th \in Threads, NEW w \in Watchers, MayCall(th, w),
         \A u \in Threads \ {th} : call'[u] = call[u],
         call'[th].obj = w, call'[th].at \notin {"post", "drain", "drained"}
  PROVE  /\ Stage(call, w) = "idle" /\ Goal(call, w) = "idle"
         /\ Stage(call', w) = call'[th].at /\ Goal(call', w) = call'[th].next
         /\ Whose(call', w) = IF th = LoopThread THEN "loop" ELSE "worker"
         /\ \A v \in Watchers \ {w} : SameCall(v)
<1>1. ProperCalls(call) /\ ProperCalls(call')
  BY Properly
<1>2. Stage(call, w) = "idle" /\ Goal(call, w) = "idle"
  BY NoCallOn DEF MayCall
<1>3. /\ Stage(call', w) = call'[th].at /\ Goal(call', w) = call'[th].next
      /\ Whose(call', w) = IF th = LoopThread THEN "loop" ELSE "worker"
  BY <1>1, CallOn
<1>4. ASSUME NEW v \in Watchers, v # w PROVE SameCall(v)
  <2>1. call[th].obj # v
    BY Apart DEF MayCall, Idle
  <2> QED
    BY <1>1, <1>4, <2>1, OtherCalls
<1> QED
  BY <1>2, <1>3, <1>4

\* pd_watcher_stop
LEMMA StopKeeps ==
  ASSUME Given, NEW th \in Threads, NEW w \in Watchers, w \notin raced, Stop(th, w)
  PROVE  Kept
<1>1. /\ Flow' = Flow /\ cur' = cur /\ lpc' = lpc /\ ran' = ran
      /\ UNCHANGED <<alive, wants, ended, ptr, datum, flags, reads, writes, raced>>
      /\ active' = active \ {w}
      /\ call' = [call EXCEPT ![th] = [at |-> "unregister", obj |-> w, next |-> "idle"]]
      /\ MayCall(th, w) /\ w \in active
  BY DEF Stop, Flow
<1>2. /\ Stage(call, w) = "idle" /\ Goal(call, w) = "idle"
      /\ Stage(call', w) = "unregister" /\ Goal(call', w) = "idle"
      /\ \A v \in Watchers \ {w} : SameCall(v)
  <2>1. /\ call'[th] = [at |-> "unregister", obj |-> w, next |-> "idle"]
        /\ \A u \in Threads \ {th} : call'[u] = call[u]
    BY <1>1, Properly DEF ProperCalls
  <2>2. MayCall(th, w) /\ call'[th].obj = w /\ call'[th].at = "unregister"
        /\ call'[th].next = "idle"
    BY <1>1, <2>1
  <2> QED
    BY <2>1, <2>2, Begins
<1>3. WatcherOK(w)
  BY DEF Given, Fine
<1>4. writes[w] = 0 /\ ~WriteIn(Flow, w)
  BY WriteInPort DEF Stop, WritesDrained, Given, Careful, PInv
<1>5. WatcherOK(w)'
  BY <1>1, <1>2, <1>3, <1>4
     DEF flags, WatcherOK, Allocated, SingleRead, Backed, Accounted,
         Registered,
         WritesOver, Freeing, Wanted, Held, Flying, AtWork, Over, ReadPacket
<1>6. ReadTypes'
  BY <1>1 DEF Given, ReadTypes, flags
<1>7. \A v \in Watchers \ {w} : Untouched(v)
  BY <1>1, <1>2 DEF Untouched, SameFlags, SameFlow, SameHandling, flags
<1>8. Fine(w)'
  BY <1>1, <1>5 DEF Fine
<1> QED
  BY <1>6, <1>7, <1>8, OneTouched

\* pd_watcher_destroy
LEMMA DestroyKeeps ==
  ASSUME Given, NEW th \in Threads, NEW w \in Watchers, w \notin raced, Destroy(th, w)
  PROVE  Kept
<1> DEFINE n == IF w \in active THEN "cleanup" ELSE "free"
<1>1. /\ Flow' = Flow /\ cur' = cur /\ lpc' = lpc /\ ran' = ran
      /\ UNCHANGED <<alive, wants, ended, ptr, datum, flags, reads, writes, raced>>
      /\ active' = active \ {w}
      /\ call' = [call EXCEPT ![th] = [at |-> "unregister", obj |-> w, next |-> n]]
      /\ MayCall(th, w) /\ w \in alive
  BY DEF Destroy, Flow
<1>2. /\ Stage(call, w) = "idle" /\ Goal(call, w) = "idle"
      /\ Stage(call', w) = "unregister" /\ Goal(call', w) = n
      /\ Whose(call', w) = IF th = LoopThread THEN "loop" ELSE "worker"
      /\ \A v \in Watchers \ {w} : SameCall(v)
  <2>1. /\ call'[th] = [at |-> "unregister", obj |-> w, next |-> n]
        /\ \A u \in Threads \ {th} : call'[u] = call[u]
    BY <1>1, Properly DEF ProperCalls
  <2> HIDE DEF n
  <2>2. MayCall(th, w) /\ call'[th].obj = w /\ call'[th].at = "unregister"
        /\ call'[th].next = n
    BY <1>1, <2>1
  <2> QED
    BY <2>1, <2>2, Begins
<1>3. WatcherOK(w)
  BY DEF Given, Fine
<1>4. writes[w] = 0 /\ ~WriteIn(Flow, w)
  BY WriteInPort DEF Destroy, WritesDrained, Given, Careful, PInv
<1>5. ~Flying(w) \/ (th # LoopThread /\ ran /\ w \in active)
  BY <1>3, UnderWay DEF Destroy, MayFree, Given, Careful, PInv, WatcherOK
<1>9. /\ ReadPacket(w, cur) => ran = TRUE
      /\ ran => ran = TRUE
  BY <1>1, LoopBusy DEF Given, PInv, PortOK
<1>6. WatcherOK(w)'
  BY <1>1, <1>2, <1>3, <1>4, <1>5, <1>9
     DEF flags, WatcherOK, Allocated, SingleRead, Backed, Accounted,
         Registered,
         WritesOver, Freeing, Wanted, Held, Flying, AtWork, Over, ReadPacket
<1>7. ReadTypes'
  BY <1>1 DEF Given, ReadTypes, flags
<1>8. \A v \in Watchers \ {w} : Untouched(v)
  BY <1>1, <1>2 DEF Untouched, SameFlags, SameFlow, SameHandling, flags
<1>10. Fine(w)'
  BY <1>1, <1>6 DEF Fine
<1> QED
  BY <1>7, <1>8, <1>10, OneTouched

\* pd_watcher_create
LEMMA CreateKeeps ==
  ASSUME Given, NEW th \in Threads, NEW w \in Watchers, NEW rd \in BOOLEAN,
         w \notin raced, WatcherCreate(th, w, rd)
  PROVE  Kept
<1>1. /\ Flow' = Flow /\ cur' = cur /\ lpc' = lpc /\ ran' = ran
      /\ UNCHANGED <<flags, writes, raced>>
      /\ alive' = alive \cup {w} /\ active' = active \cup {w} /\ datum' = datum \cup {w}
      /\ ended' = ended \ {w}
      /\ MayCall(th, w) /\ w \notin alive /\ w \notin datum
      /\ th = LoopThread
  BY DEF WatcherCreate, Flow, Given, Careful
<1>2. WatcherOK(w)
  BY DEF Given, Fine
<1>3. Stage(call, w) = "idle" /\ Goal(call, w) = "idle"
  BY <1>1, NoCallOn DEF MayCall
<1>4. /\ w \notin ptr /\ w \notin pending /\ w \notin stopping /\ w \notin avail
      /\ w \notin active
      /\ reads[w] = 0 /\ ~ReadIn(Flow, w) /\ ~ReadPacket(w, cur)
      /\ writes[w] = 0 /\ ~WriteIn(Flow, w)
  BY <1>1, <1>2, <1>3 DEF WatcherOK, Allocated, Backed, WritesOver
<1>5. reads[w] = 0 /\ reads \in [Watchers -> Nat]
  BY <1>4 DEF Given, ReadTypes
<1>6. ~StaleIn(Flow, w)
  BY <1>4, StaleIsRead
<1>7. lpc \in {"out", "callback"}
  BY <1>1 DEF MayCall
<1>8. CASE rd
  <2>1. /\ wants' = wants \cup {w}
        /\ ptr' = ptr \cup {w} \/ ptr' = ptr \ {w}
        /\ reads' = [reads EXCEPT ![w] = reads[w] + 1]
        /\ call' = [call EXCEPT ![th] = [at |-> "arm", obj |-> w, next |-> "free"]]
    BY <1>8 DEF WatcherCreate, With
  <2>2. reads' = [reads EXCEPT ![w] = 1]
    BY <2>1, <1>5
  <2>3. /\ Stage(call', w) = "arm" /\ Goal(call', w) = "free"
        /\ Whose(call', w) = "loop"
        /\ \A v \in Watchers \ {w} : SameCall(v)
    <3>1. /\ call'[th] = [at |-> "arm", obj |-> w, next |-> "free"]
          /\ \A u \in Threads \ {th} : call'[u] = call[u]
      BY <2>1, Properly DEF ProperCalls
    <3> QED
      BY <1>1, <3>1, Begins
  <2>4. WatcherOK(w)'
    BY <1>1, <1>2, <1>4, <1>5, <1>6, <1>7, <2>1, <2>2, <2>3
       DEF flags, WatcherOK, Allocated, SingleRead, Backed, Accounted,
           Registered,
           WritesOver, Freeing, Wanted, Held, Flying, AtWork, Over, ReadPacket
  <2>5. ReadTypes'
    BY <1>1, <1>5, <2>1, <2>2 DEF Given, ReadTypes, flags
  <2>6. \A v \in Watchers \ {w} : Untouched(v)
    BY <1>1, <1>5, <2>1, <2>2, <2>3
       DEF Untouched, SameFlags, SameFlow, SameHandling, flags
  <2>7. Fine(w)'
    BY <1>1, <2>4 DEF Fine
  <2> QED
    BY <2>5, <2>6, <2>7, OneTouched
<1>9. CASE ~rd
  <2>1. /\ wants' = wants \ {w}
        /\ ptr' = ptr \cup {w}
        /\ reads' = [reads EXCEPT ![w] = reads[w]]
        /\ call' = call
    BY <1>9 DEF WatcherCreate, With
  <2>2. reads' = reads
    BY <2>1, <1>5
  <2>4. WatcherOK(w)'
    BY <1>1, <1>2, <1>3, <1>4, <1>5, <1>6, <1>7, <2>1, <2>2
       DEF flags, WatcherOK, Allocated, SingleRead, Backed, Accounted,
           Registered,
           WritesOver, Freeing, Wanted, Held, Flying, AtWork, Over, ReadPacket
  <2>5. ReadTypes'
    BY <1>1, <2>1, <2>2 DEF Given, ReadTypes, flags
  <2>6. \A v \in Watchers \ {w} : Untouched(v)
    BY <1>1, <2>1, <2>2
       DEF Untouched, SameFlags, SameFlow, SameHandling, SameCall, flags
  <2>7. Fine(w)'
    BY <1>1, <2>4 DEF Fine
  <2> QED
    BY <2>5, <2>6, <2>7, OneTouched
<1> QED
  BY <1>8, <1>9


\* CancelIoEx takes a read from the kernel, if there is one, to the flow
LEMMA CancelFlow ==
  ASSUME Given, NEW w \in Watchers, CancelRead(w), batch' = batch
  PROVE  \/ /\ reads[w] # 0 /\ reads' = [reads EXCEPT ![w] = reads[w] - 1]
            /\ reads' \in [Watchers -> Nat]
            /\ ReadIn(Flow', w) /\ (OneReadIn(Flow, w) /\ ~ReadIn(Flow, w) => OneReadIn(Flow', w))
            /\ WriteIn(Flow', w) <=> WriteIn(Flow, w)
            /\ \A v \in Watchers \ {w} : SameFlow(v)
         \/ reads[w] = 0 /\ reads' = reads /\ Flow' = Flow
<1>1. reads \in [Watchers -> Nat]
  BY DEF Given, ReadTypes
<1>2. CASE reads[w] > 0
  <2>1. reads[w] # 0 /\ reads[w] - 1 \in Nat
    BY <1>1, <1>2
  <2>2. /\ queue' = Append(queue, Packet("read", w, "cancelled"))
        /\ reads' = [reads EXCEPT ![w] = reads[w] - 1]
    BY <1>2 DEF CancelRead
  <2>3. reads' \in [Watchers -> Nat]
    BY <1>1, <2>1, <2>2
  <2> DEFINE p == Packet("read", w, "cancelled")
  <2>4. p \in Packets /\ p.obj = w /\ p.kind = "read"
    BY DEF Packet, Packets
  <2>5. queue' = Append(queue, p)
    BY <2>2
  <2> HIDE DEF p
  <2>6. Posted(p)
    BY <2>4, <2>5, QueueGrows DEF Given, PInv, PortOK
  <2>7. ReadPacket(w, p)
    BY <2>4 DEF ReadPacket
  <2>8. /\ ReadIn(Flow', w) /\ (OneReadIn(Flow, w) /\ ~ReadIn(Flow, w) => OneReadIn(Flow', w))
        /\ WriteIn(Flow', w) <=> WriteIn(Flow, w)
    BY <2>4, <2>6, <2>7, PostedFlow DEF Given, PInv
  <2>9. \A v \in Watchers \ {w} : SameFlow(v)
    BY <2>4, <2>6, PostedFlow DEF Given, PInv
  <2> QED
    BY <2>1, <2>2, <2>3, <2>8, <2>9
<1>3. CASE ~(reads[w] > 0)
  <2>1. reads[w] = 0
    BY <1>1, <1>3
  <2> QED
    BY <1>3, <2>1 DEF CancelRead, Flow
<1> QED
  BY <1>2, <1>3

\* The same for a watcher with one read
LEMMA CancelOne ==
  ASSUME Given, NEW w \in Watchers, WatcherOK(w), CancelRead(w), batch' = batch
  PROVE  \/ /\ reads[w] = 1 /\ reads' = [reads EXCEPT ![w] = 0]
            /\ ReadIn(Flow', w) /\ OneReadIn(Flow', w)
            /\ WriteIn(Flow', w) <=> WriteIn(Flow, w)
            /\ \A v \in Watchers \ {w} : SameFlow(v)
         \/ reads[w] = 0 /\ reads' = reads /\ Flow' = Flow
<1>1. /\ reads[w] # 0 => reads[w] = 1 /\ reads[w] - 1 = 0
      /\ reads[w] # 0 => OneReadIn(Flow, w) /\ ~ReadIn(Flow, w)
  BY DEF WatcherOK, SingleRead
<1> QED
  BY <1>1, CancelFlow

\* pd_watcher_update
LEMMA UpdateKeeps ==
  ASSUME Given, NEW th \in Threads, NEW w \in Watchers, NEW rd \in BOOLEAN,
         w \notin raced, Update(th, w, rd)
  PROVE  Kept
<1>1. /\ batch' = batch /\ cur' = cur /\ lpc' = lpc /\ ran' = ran /\ call' = call
      /\ UNCHANGED <<alive, active, ptr, datum, stopping, avail, writes>>
      /\ wants' = With(wants, w, rd)
      /\ MayCall(th, w) /\ w \in active
  BY DEF Update
<1>2. WatcherOK(w) /\ reads \in [Watchers -> Nat]
  BY DEF Given, ReadTypes, Fine
<1>3. Stage(call, w) = "idle" /\ Goal(call, w) = "idle"
  BY <1>1, NoCallOn DEF MayCall
<1>5. w \in ptr /\ w \notin stopping
  BY <1>1, <1>2, <1>3 DEF WatcherOK, Registered
<1>6. /\ w \in wants' <=> rd
      /\ wants' \subseteq Watchers
      /\ \A v \in Watchers \ {w} : v \in wants' <=> v \in wants
  BY <1>1 DEF With, Given, ReadTypes
<1>7. CASE /\ ~rd /\ w \in pending
           /\ CancelRead(w) \/ UNCHANGED <<queue, reads>>
           /\ UNCHANGED <<pending, ended, raced>>
  <2>1. \/ /\ reads[w] = 1 /\ reads' = [reads EXCEPT ![w] = 0]
           /\ ReadIn(Flow', w) /\ OneReadIn(Flow', w)
           /\ WriteIn(Flow', w) <=> WriteIn(Flow, w)
           /\ \A v \in Watchers \ {w} : SameFlow(v)
        \/ reads' = reads /\ Flow' = Flow
    <3>1. CASE CancelRead(w)
      BY <1>1, <1>2, <3>1, CancelOne
    <3>2. CASE UNCHANGED <<queue, reads>>
      BY <1>1, <3>2 DEF Flow
    <3> QED
      BY <1>7, <3>1, <3>2
  <2>2. WatcherOK(w)'
    BY <1>1, <1>2, <1>3, <1>5, <1>6, <1>7, <2>1
       DEF WatcherOK, Allocated, SingleRead, Backed, Accounted, Registered,
           WritesOver, Freeing, Wanted, Held, Flying, AtWork, Over, ReadPacket
  <2>3. ReadTypes'
    <3>1. reads' \in [Watchers -> Nat]
      BY <1>2, <2>1
    <3> QED
      BY <1>1, <1>6, <1>7, <3>1 DEF Given, ReadTypes
  <2>4. \A v \in Watchers \ {w} : Untouched(v)
    BY <1>1, <1>2, <1>6, <1>7, <2>1
       DEF Untouched, SameFlags, SameFlow, SameCall, SameHandling
  <2>5. Fine(w)'
    BY <1>7, <2>2 DEF Fine
  <2> QED
    BY <2>3, <2>4, <2>5, OneTouched
<1>8. ASSUME NEW ok \in BOOLEAN, rd, w \notin pending,
             ok \/ ~ReissueWorks,
             pending' = pending \cup {w},
             reads' = [reads EXCEPT ![w] = IF ok THEN reads[w] + 1 ELSE reads[w]],
             ended' = IF ok THEN ended \ {w} ELSE ended,
             Races(w, ReadPacket(w, cur) /\ cur.res = "READ"),
             UNCHANGED queue
      PROVE  Kept
  <2>1. Flow' = Flow
    BY <1>1, <1>8 DEF Flow
  <2>2. reads[w] = 0 /\ ~ReadIn(Flow, w)
    BY <1>2, <1>3, <1>5, <1>8 DEF WatcherOK, Backed
  <2>3. ~StaleIn(Flow, w)
    BY <2>2, StaleIsRead
  <2>4. reads' = [reads EXCEPT ![w] = IF ok THEN 1 ELSE 0]
    BY <1>8, <2>2
  <2>5. ~AtWork(w) /\ ~(ReadPacket(w, cur) /\ cur.res = "cancelled")
    <3>1. ~AtWork(w)
      BY <1>2, <1>8 DEF WatcherOK, Backed
    <3> QED
      BY <3>1 DEF AtWork, Given, PInv, PortOK, Handling, ReadPacket, Packet, NoPacket
  <2>6. /\ raced' \subseteq raced \cup {w} /\ raced \subseteq raced'
        /\ w \in raced' <=> ReadPacket(w, cur) /\ cur.res = "READ"
    BY <1>8 DEF Races
  <2>7. ReadPacket(w, cur) /\ cur.res = "READ" => cur = Packet("read", w, "READ")
    BY DEF ReadPacket, Packet, Given, PInv, PortOK, Packets
  <2>8. ASSUME w \notin raced' PROVE WatcherOK(w)'
    <3>1. ~Held(w)
      BY <1>8, <2>5, <2>6, <2>7, <2>8 DEF Held, AtWork, ReadPacket
    <3>2. CASE ok
      <4>1. reads'[w] = 1 /\ w \notin ended'
        BY <1>2, <1>8, <2>4, <3>2
      <4>2. Flying(w)' /\ ~ReadIn(Flow', w) /\ ~Held(w)' /\ ~AtWork(w)'
        BY <1>1, <2>1, <2>2, <2>5, <3>1, <4>1 DEF Flying, Held, AtWork, ReadPacket
      <4>3. Allocated(w)' /\ SingleRead(w)' /\ Accounted(w)'
        BY <1>1, <1>2, <1>3, <1>5, <1>8, <2>1, <4>1, <4>2
           DEF WatcherOK, Allocated, SingleRead, Accounted
      <4>4. Backed(w)' /\ Registered(w)' /\ WritesOver(w)'
        BY <1>1, <1>2, <1>3, <1>5, <1>8, <2>1, <4>2
           DEF WatcherOK, Backed, Registered, WritesOver, ReadPacket
      <4>5. Freeing(w)' /\ Wanted(w)'
        BY <1>1, <1>3, <2>1, <2>3, <2>5, <4>2 DEF Freeing, Wanted, ReadPacket
      <4> QED
        BY <4>3, <4>4, <4>5 DEF WatcherOK
    <3>3. CASE ~ok
      <4>1. reads'[w] = 0 /\ ~ReissueWorks /\ ~Steady
        BY <1>2, <1>8, <2>4, <3>3 DEF ReissueWorks, Steady
      <4> QED
        BY <1>1, <1>2, <1>3, <1>5, <1>6, <1>8, <2>1, <2>2, <2>3, <2>5, <3>1, <4>1
           DEF WatcherOK, Allocated, SingleRead, Backed, Accounted, Registered,
               WritesOver, Freeing, Wanted, Held, Flying, AtWork, Over, ReadPacket
    <3> QED
      BY <3>2, <3>3
  <2>9. ASSUME w \in raced' PROVE RacedOK(w)'
    <3>1. CASE ok
      <4>1. reads'[w] # 0
        BY <1>2, <2>4, <3>1
      <4> QED
        BY <1>1, <1>3, <1>5, <1>8, <2>1, <2>3, <2>5, <4>1 DEF RacedOK, Flying
    <3>2. CASE ~ok
      BY <1>1, <1>3, <1>5, <1>8, <3>2 DEF RacedOK, ReissueWorks, Steady
    <3> QED
      BY <3>1, <3>2
  <2>10. ReadTypes'
    <3>1. pending' \subseteq Watchers /\ ended' \subseteq Watchers /\ raced' \subseteq Watchers
      BY <1>8, <2>6 DEF Given, ReadTypes
    <3>2. reads' \in [Watchers -> Nat]
      BY <1>2, <2>4
    <3> QED
      BY <1>1, <1>6, <3>1, <3>2 DEF Given, ReadTypes
  <2>11. \A v \in Watchers \ {w} : Untouched(v)
    BY <1>1, <1>2, <1>6, <1>8, <2>1, <2>4, <2>6
       DEF Untouched, SameFlags, SameFlow, SameCall, SameHandling
  <2> QED
    BY <2>8, <2>9, <2>10, <2>11, FineCases, OneTouched
<1>9. CASE /\ rd <=> w \in pending
           /\ rd /\ Cancelled(w) => "toggle" \in Liberties
           /\ UNCHANGED <<queue, pending, reads, ended, raced>>
  <2>1. Flow' = Flow
    BY <1>1, <1>9 DEF Flow
  <2>2. rd /\ Steady => ~StaleIn(Flow, w) /\ ~(ReadPacket(w, cur) /\ cur.res = "cancelled")
    BY <1>9, CancelledIn DEF Given, PInv, Steady
  <2>3. rd /\ Steady => Flying(w) \/ Held(w)
    <3>1. AtWork(w) => Held(w)
      BY DEF AtWork, Held, Given, PInv, PortOK, Handling, ReadPacket, Packet
    <3> QED
      BY <1>2, <1>5, <1>9, <3>1 DEF WatcherOK, Accounted, Steady, ReissueWorks
  <2>4. WatcherOK(w)'
    BY <1>1, <1>2, <1>3, <1>5, <1>6, <1>9, <2>1, <2>2, <2>3
       DEF WatcherOK, Allocated, SingleRead, Backed, Accounted, Registered,
           WritesOver, Freeing, Wanted, Held, Flying, AtWork, Over, ReadPacket
  <2>5. ReadTypes'
    BY <1>1, <1>2, <1>6, <1>9 DEF Given, ReadTypes
  <2>6. \A v \in Watchers \ {w} : Untouched(v)
    BY <1>1, <1>6, <1>9, <2>1
       DEF Untouched, SameFlags, SameFlow, SameCall, SameHandling
  <2>7. Fine(w)'
    BY <1>9, <2>4 DEF Fine
  <2> QED
    BY <2>5, <2>6, <2>7, OneTouched
<1> QED
  BY <1>5, <1>7, <1>8, <1>9 DEF Update, ReissueWorks


\* The call on w goes on
LEMMA GoesOn ==
  ASSUME Given, NEW th \in Threads, NEW w \in Watchers, call[th].obj = w,
         \A u \in Threads \ {th} : call'[u] = call[u], call'[th].obj = w
  PROVE  /\ Stage(call, w) = IF call[th].at \in {"post", "drain", "drained"}
                               THEN "wait" ELSE call[th].at
         /\ Goal(call, w) = call[th].next
         /\ Whose(call, w) = IF th = LoopThread THEN "loop" ELSE "worker"
         /\ Stage(call', w) = IF call'[th].at \in {"post", "drain", "drained"}
                                THEN "wait" ELSE call'[th].at
         /\ Goal(call', w) = call'[th].next
         /\ Whose(call', w) = Whose(call, w)
         /\ \A v \in Watchers \ {w} : SameCall(v)
<1>1. ProperCalls(call) /\ ProperCalls(call')
  BY Properly
<1>2. \A v \in Watchers \ {w} : SameCall(v)
  BY <1>1, OtherCalls
<1> QED
  BY <1>1, <1>2, CallOn

\* Thread th is in a call on a watcher
LEMMA InCall ==
  ASSUME Given, NEW th \in Threads,
         \/ call[th].at \in {"arm", "unregister", "mark", "cancel", "done"}
         \/ call[th].obj \in Watchers
  PROVE  call[th].obj \in Watchers /\ call[th] # Idle /\ call[th] \in WatcherCalls
<1>1. call[th] \in {Idle} \cup WatcherCalls \cup TimerCalls
  BY DEF Given, PInv, CallsOK
<1> QED
  BY <1>1, Apart DEF WatcherCalls, TimerCalls, Idle

\* A call on w moves to the next stage
LEMMA GoesTo ==
  ASSUME Given, NEW th \in Threads, NEW w \in Watchers, call[th].obj = w, NEW a, GoTo(th, a)
  PROVE  /\ Stage(call, w) = IF call[th].at \in {"post", "drain", "drained"}
                               THEN "wait" ELSE call[th].at
         /\ Goal(call, w) = call[th].next
         /\ Whose(call, w) = IF th = LoopThread THEN "loop" ELSE "worker"
         /\ Stage(call', w) = IF a \in {"post", "drain", "drained"} THEN "wait" ELSE a
         /\ Goal(call', w) = Goal(call, w)
         /\ Whose(call', w) = Whose(call, w)
         /\ \A v \in Watchers \ {w} : SameCall(v)
<1>1. /\ call'[th] = [at |-> a, obj |-> call[th].obj, next |-> call[th].next]
      /\ \A u \in Threads \ {th} : call'[u] = call[u]
  BY GoToCall DEF Given, PInv
<1>2. call'[th].obj = w /\ call'[th].at = a /\ call'[th].next = call[th].next
  BY <1>1
<1> QED
  BY <1>1, <1>2, GoesOn

\* The call on w returns
LEMMA Returns ==
  ASSUME Given, NEW th \in Threads, NEW w \in Watchers, call[th].obj = w, Return(th)
  PROVE  /\ Stage(call, w) = IF call[th].at \in {"post", "drain", "drained"}
                               THEN "wait" ELSE call[th].at
         /\ Goal(call, w) = call[th].next
         /\ Whose(call, w) = IF th = LoopThread THEN "loop" ELSE "worker"
         /\ Stage(call', w) = "idle" /\ Goal(call', w) = "idle"
         /\ \A v \in Watchers \ {w} : SameCall(v)
<1>1. ProperCalls(call) /\ ProperCalls(call')
  BY Properly
<1>2. /\ call'[th] = Idle
      /\ \A u \in Threads \ {th} : call'[u] = call[u]
  BY <1>1 DEF ProperCalls, Return
<1>3. call'[th].obj = Nobody /\ call[th] # Idle
  BY <1>2, Apart DEF Idle
<1>4. \A u \in Threads : call'[u].obj # w
  BY <1>1, <1>2, <1>3, Apart DEF ProperCalls
<1>5. Stage(call', w) = "idle" /\ Goal(call', w) = "idle"
  BY <1>4, NoCallOn
<1>6. \A v \in Watchers \ {w} : SameCall(v)
  BY <1>1, <1>2, <1>3, Apart, OtherCalls
<1> QED
  BY <1>1, <1>5, <1>6, CallOn

\* The end of pd_watcher_create
LEMMA ArmKeeps ==
  ASSUME Given, NEW th \in Threads, RegisterArm(th)
  PROVE  Kept
<1>1. PICK w \in Watchers : call[th].obj = w
  BY InCall DEF RegisterArm
<1>2. /\ Flow' = Flow /\ cur' = cur /\ lpc' = lpc /\ ran' = ran
      /\ UNCHANGED <<life, datum, stopping, avail, reads, writes, raced>>
      /\ pending' = pending \cup {w} /\ ptr' = ptr \cup {w}
      /\ call[th].at = "arm" /\ Return(th)
  BY <1>1 DEF RegisterArm, Flow, Given, Careful
<1>4. Stage(call, w) = "arm" /\ Whose(call, w) = IF th = LoopThread THEN "loop" ELSE "worker"
  BY <1>1, <1>2, CallOn, Properly
<1>3. WatcherOK(w) /\ w \notin raced
  BY <1>4 DEF Given, Fine, RacedOK
<1>5. /\ Flying(w) /\ th = LoopThread
      /\ w \in active /\ w \in datum /\ w \notin stopping /\ w \in alive
  BY <1>3, <1>4 DEF WatcherOK, Accounted, Allocated
<1>6. ~AtWork(w)
  BY <1>1, <1>5, LoopBusy, InCall
<1>7. /\ Stage(call', w) = "idle" /\ Goal(call', w) = "idle"
      /\ \A v \in Watchers \ {w} : SameCall(v)
  BY <1>1, <1>2, Returns
<1>8. WatcherOK(w)'
  BY <1>2, <1>3, <1>4, <1>5, <1>6, <1>7
     DEF life, WatcherOK, Allocated, SingleRead, Backed, Accounted, Registered,
         WritesOver, Freeing, Wanted, Held, Flying, AtWork, Over, ReadPacket
<1>9. ReadTypes'
  BY <1>2 DEF Given, ReadTypes, life
<1>10. \A v \in Watchers \ {w} : Untouched(v)
  BY <1>2, <1>7 DEF Untouched, SameFlags, SameFlow, SameHandling, life
<1>11. Fine(w)'
  BY <1>2, <1>3, <1>8 DEF Fine
<1> QED
  BY <1>9, <1>10, <1>11, OneTouched

\* iocp_watcher_unregister up to the test of pending_operation
LEMMA UnregisterKeeps ==
  ASSUME Given, NEW th \in Threads, Unregister(th)
  PROVE  Kept
<1>1. PICK w \in Watchers : call[th].obj = w
  BY InCall DEF Unregister
<1>2. /\ Flow' = Flow /\ cur' = cur /\ lpc' = lpc /\ ran' = ran
      /\ UNCHANGED <<alive, wants, ended, reads, writes>>
      /\ call[th].at = "unregister"
  BY <1>1 DEF Unregister, Flow
<1>3. /\ w \notin raced => WatcherOK(w)
      /\ w \in raced => RacedOK(w)
  BY DEF Given, Fine
<1>4. /\ Stage(call, w) = "unregister" /\ Goal(call, w) = call[th].next
      /\ Whose(call, w) = IF th = LoopThread THEN "loop" ELSE "worker"
  BY <1>1, <1>2, CallOn, Properly
<1>5. w \notin active
  BY <1>3, <1>4 DEF WatcherOK, RacedOK, Registered
<1>6. /\ AtWork(w) => ReadPacket(w, cur)
      /\ AtWork(w) => th # LoopThread
  BY <1>1, LoopBusy, InCall, <1>2
<1>7. CASE /\ w \notin ptr \/ (w \in ptr /\ w \in stopping)
           /\ active' = active \/ (call[th].next # "free" /\ w \notin ptr)
           /\ GoTo(th, "done") /\ Races(w, Overtakes(th, w))
           /\ UNCHANGED <<ptr, datum, flags>>
  <2>1. Goal(call, w) = "free" /\ active' = active
    BY <1>3, <1>4, <1>7 DEF WatcherOK, Registered, RacedOK
  <2>2. /\ Stage(call', w) = "done"
        /\ Goal(call', w) = Goal(call, w) /\ Whose(call', w) = Whose(call, w)
        /\ \A v \in Watchers \ {w} : SameCall(v)
    BY <1>1, <1>7, GoesTo
  <2>3. /\ raced' \subseteq raced \cup {w} /\ raced \subseteq raced'
        /\ w \notin raced' => w \notin raced /\ ~ReadPacket(w, cur)
    BY <1>4, <1>7, <2>1 DEF Races, Overtakes
  <2>4. w \notin raced' => WatcherOK(w)'
    BY <1>2, <1>3, <1>4, <1>5, <1>6, <1>7, <2>1, <2>2, <2>3
       DEF flags, WatcherOK, Allocated, SingleRead, Backed, Accounted, Registered,
           WritesOver, Freeing, Wanted, Held, Flying, AtWork, Over, ReadPacket
  <2>5. w \in raced' => RacedOK(w)'
    BY <1>2, <1>3, <1>4, <1>5, <1>7, <2>1, <2>2
       DEF flags, WatcherOK, Accounted, RacedOK, Flying, AtWork
  <2>6. ReadTypes'
    BY <1>2, <1>7, <2>1, <2>3 DEF Given, ReadTypes, flags
  <2>7. \A v \in Watchers \ {w} : Untouched(v)
    BY <1>2, <1>7, <2>1, <2>2, <2>3
       DEF Untouched, SameFlags, SameFlow, SameHandling, flags
  <2> QED
    BY <2>4, <2>5, <2>6, <2>7, FineCases, OneTouched
<1>8. CASE /\ w \in ptr /\ w \notin stopping /\ w \notin pending
           /\ FreeDatum(w) /\ GoTo(th, "done") /\ Races(w, Overtakes(th, w))
           /\ UNCHANGED active
  <2>1. /\ Stage(call', w) = "done"
        /\ Goal(call', w) = Goal(call, w) /\ Whose(call', w) = Whose(call, w)
        /\ \A v \in Watchers \ {w} : SameCall(v)
    BY <1>1, <1>8, GoesTo
  <2>2. /\ raced' \subseteq raced \cup {w} /\ raced \subseteq raced'
        /\ w \notin raced' => w \notin raced
    BY <1>8 DEF Races
  <2>3. w \notin raced => ~Flying(w) /\ ~AtWork(w) /\ Goal(call, w) # "free"
    BY <1>3, <1>4, <1>8 DEF WatcherOK, Backed, Flying, Registered
  <2>4. w \notin raced' => WatcherOK(w)'
    BY <1>2, <1>3, <1>4, <1>5, <1>8, <2>1, <2>2, <2>3
       DEF FreeDatum, WatcherOK, Allocated, SingleRead, Backed, Accounted, Registered,
           WritesOver, Freeing, Wanted, Held, Flying, AtWork, Over, ReadPacket
  <2>5. w \in raced' => RacedOK(w)'
    BY <1>5, <1>8, <2>1 DEF FreeDatum, RacedOK
  <2>6. ReadTypes'
    BY <1>2, <1>8, <2>2 DEF Given, ReadTypes, FreeDatum
  <2>7. \A v \in Watchers \ {w} : Untouched(v)
    BY <1>2, <1>8, <2>1, <2>2
       DEF Untouched, SameFlags, SameFlow, SameHandling, FreeDatum
  <2> QED
    BY <2>4, <2>5, <2>6, <2>7, FineCases, OneTouched
<1>9. CASE /\ w \in ptr /\ w \notin stopping /\ w \in pending
           /\ GoTo(th, "mark") /\ UNCHANGED <<active, ptr, datum, flags, raced>>
  <2>1. /\ Stage(call', w) = "mark"
        /\ Goal(call', w) = Goal(call, w) /\ Whose(call', w) = Whose(call, w)
        /\ \A v \in Watchers \ {w} : SameCall(v)
    BY <1>1, <1>9, GoesTo
  <2>2. w \notin raced => WatcherOK(w)'
    BY <1>2, <1>3, <1>4, <1>5, <1>9, <2>1
       DEF flags, WatcherOK, Allocated, SingleRead, Backed, Accounted, Registered,
           WritesOver, Freeing, Wanted, Held, Flying, AtWork, Over, ReadPacket
  <2>3. w \in raced => RacedOK(w)'
    BY <1>2, <1>3, <1>4, <1>5, <1>9, <2>1 DEF flags, RacedOK, Flying, AtWork
  <2>4. ReadTypes'
    BY <1>2, <1>9 DEF Given, ReadTypes, flags
  <2>5. \A v \in Watchers \ {w} : Untouched(v)
    BY <1>2, <1>9, <2>1
       DEF Untouched, SameFlags, SameFlow, SameHandling, flags
  <2> QED
    BY <1>9, <2>2, <2>3, <2>4, <2>5, FineCases, OneTouched
<1> QED
  BY <1>1, <1>7, <1>8, <1>9 DEF Unregister


\* stopping is set
LEMMA MarkKeeps ==
  ASSUME Given, NEW th \in Threads, Mark(th)
  PROVE  Kept
<1>1. PICK w \in Watchers : call[th].obj = w
  BY InCall DEF Mark
<1>2. /\ Flow' = Flow /\ cur' = cur /\ lpc' = lpc /\ ran' = ran
      /\ UNCHANGED <<life, ptr, datum, pending, avail, reads, writes, raced>>
      /\ stopping' = stopping \cup {w}
      /\ call[th].at = "mark" /\ GoTo(th, "cancel")
  BY <1>1 DEF Mark, Flow
<1>3. /\ w \notin raced => WatcherOK(w)
      /\ w \in raced => RacedOK(w)
  BY DEF Given, Fine
<1>4. /\ Stage(call, w) = "mark" /\ Stage(call', w) = "cancel"
      /\ Goal(call', w) = Goal(call, w) /\ Whose(call', w) = Whose(call, w)
      /\ Whose(call, w) = IF th = LoopThread THEN "loop" ELSE "worker"
      /\ \A v \in Watchers \ {w} : SameCall(v)
  BY <1>1, <1>2, GoesTo
<1>5. w \notin active
  BY <1>3, <1>4 DEF WatcherOK, RacedOK, Registered
<1>6. w \notin raced => WatcherOK(w)'
  BY <1>2, <1>3, <1>4, <1>5
     DEF life, WatcherOK, Allocated, SingleRead, Backed, Accounted, Registered,
         WritesOver, Freeing, Wanted, Held, Flying, AtWork, Over, ReadPacket
<1>7. w \in raced => RacedOK(w)'
  BY <1>2, <1>3, <1>4, <1>5 DEF life, RacedOK
<1>8. ReadTypes'
  BY <1>2 DEF Given, ReadTypes, life
<1>9. \A v \in Watchers \ {w} : Untouched(v)
  BY <1>2, <1>4 DEF Untouched, SameFlags, SameFlow, SameHandling, life
<1> QED
  BY <1>2, <1>6, <1>7, <1>8, <1>9, FineCases, OneTouched

\* The read is cancelled
LEMMA CancelKeeps ==
  ASSUME Given, NEW th \in Threads, Cancel(th)
  PROVE  Kept
<1>1. PICK w \in Watchers : call[th].obj = w
  BY InCall DEF Cancel
<1>2. /\ batch' = batch /\ cur' = cur /\ lpc' = lpc /\ ran' = ran
      /\ UNCHANGED <<life, ptr, datum, flags, writes>>
      /\ call[th].at = "cancel"
      /\ GoTo(th, IF th # LoopThread /\ ran THEN "post" ELSE "done")
      /\ CancelRead(w) /\ Races(w, Overtakes(th, w) /\ lpc = "issue")
  BY <1>1 DEF Cancel, Given, Careful
<1>3. /\ w \notin raced => WatcherOK(w)
      /\ w \in raced => RacedOK(w)
      /\ reads \in [Watchers -> Nat]
  BY DEF Given, Fine, ReadTypes
<1>4. /\ Stage(call, w) = "cancel" /\ Goal(call, w) = call[th].next
      /\ Stage(call', w) = IF th # LoopThread /\ ran THEN "wait" ELSE "done"
      /\ Goal(call', w) = Goal(call, w) /\ Whose(call', w) = Whose(call, w)
      /\ Whose(call, w) = IF th = LoopThread THEN "loop" ELSE "worker"
      /\ \A v \in Watchers \ {w} : SameCall(v)
  <2>1. CASE th # LoopThread /\ ran
    <3>1. GoTo(th, "post")
      BY <1>2, <2>1
    <3> QED
      BY <1>1, <1>2, <2>1, <3>1, GoesTo
  <2>2. CASE ~(th # LoopThread /\ ran)
    <3>1. GoTo(th, "done")
      BY <1>2, <2>2
    <3> QED
      BY <1>1, <1>2, <2>2, <3>1, GoesTo
  <2> QED
    BY <2>1, <2>2
<1>5. /\ AtWork(w) => ReadPacket(w, cur) /\ th # LoopThread /\ ran = TRUE
      /\ ran = TRUE => ran
  BY <1>1, <1>2, LoopBusy, InCall
<1>6. /\ raced' \subseteq raced \cup {w} /\ raced \subseteq raced'
      /\ w \notin raced' => w \notin raced /\ ~(AtWork(w) /\ lpc = "issue")
  BY <1>2, <1>5 DEF Races, Overtakes, AtWork
<1>7. w \notin active
  BY <1>3, <1>4 DEF WatcherOK, RacedOK, Registered
<1>8. w \notin raced' => WatcherOK(w)'
  <2> SUFFICES ASSUME w \notin raced' PROVE WatcherOK(w)'
    OBVIOUS
  <2>1. WatcherOK(w)
    BY <1>3, <1>6
  <2>2. \/ /\ reads[w] = 1 /\ reads' = [reads EXCEPT ![w] = 0]
           /\ ReadIn(Flow', w) /\ OneReadIn(Flow', w)
           /\ WriteIn(Flow', w) <=> WriteIn(Flow, w)
        \/ reads[w] = 0 /\ reads' = reads /\ Flow' = Flow
    BY <1>2, <2>1, CancelOne
  <2>3. CASE th # LoopThread /\ ran
    <3>1. Stage(call', w) = "wait"
      BY <1>4, <2>3
    <3> QED
      BY <1>2, <1>3, <1>4, <1>5, <1>6, <1>7, <2>1, <2>2, <3>1
         DEF life, flags, WatcherOK, Allocated, SingleRead, Backed, Accounted, Registered,
             WritesOver, Freeing, Wanted, Held, Flying, AtWork, Over, ReadPacket
  <2>4. CASE ~(th # LoopThread /\ ran)
    <3>1. Stage(call', w) = "done" /\ ~AtWork(w)
      BY <1>4, <1>5, <2>4
    <3>2. Goal(call, w) = "cleanup" => ~Flying(w)
      <4>1. ~(Whose(call, w) = "worker" /\ ran = TRUE)
        BY <1>4, <1>5, <2>4
      <4> QED
        BY <1>4, <2>1, <4>1 DEF WatcherOK, Freeing
    <3> QED
      BY <1>2, <1>3, <1>4, <1>6, <1>7, <2>1, <2>2, <3>1, <3>2
         DEF life, flags, WatcherOK, Allocated, SingleRead, Backed, Accounted, Registered,
             WritesOver, Freeing, Wanted, Held, Flying, AtWork, Over, ReadPacket
  <2> QED
    BY <2>3, <2>4
<1>9. \/ /\ ReadIn(Flow', w)
         /\ reads' = [reads EXCEPT ![w] = reads[w] - 1] /\ reads' \in [Watchers -> Nat]
         /\ \A v \in Watchers \ {w} : SameFlow(v)
      \/ reads' = reads /\ Flow' = Flow
  BY <1>2, CancelFlow
<1>10. w \in raced' => RacedOK(w)'
  <2>1. ASSUME ReissueWorks, w \in ptr, w \in pending
        PROVE  w \in stopping \/ Flying(w)' \/ AtWork(w)'
    BY <1>2, <1>3, <1>9, <2>1 DEF WatcherOK, Accounted, RacedOK, Flying, AtWork
  <2>2. Stage(call', w) \in {"wait", "done"}
    BY <1>4
  <2> QED
    BY <1>2, <1>7, <2>1, <2>2 DEF life, flags, RacedOK
<1>11. ReadTypes'
  BY <1>2, <1>3, <1>6, <1>9 DEF Given, ReadTypes, life, flags
<1>12. \A v \in Watchers \ {w} : Untouched(v)
  BY <1>2, <1>3, <1>4, <1>6, <1>9
     DEF Untouched, SameFlags, SameFlow, SameHandling, life, flags
<1> QED
  BY <1>8, <1>10, <1>11, <1>12, FineCases, OneTouched


\* What follows an unregistration
LEMMA CallDoneKeeps ==
  ASSUME Given, NEW th \in Threads, WatcherCallDone(th)
  PROVE  Kept
<1>1. PICK w \in Watchers : call[th].obj = w
  BY DEF WatcherCallDone
<1>2. /\ Flow' = Flow /\ cur' = cur /\ lpc' = lpc /\ ran' = ran
      /\ UNCHANGED <<datum, reads, writes, raced>>
  BY DEF WatcherCallDone, Flow
<1>3. call[th].at \in {"done", "drained"}
  BY DEF WatcherCallDone, TimesOut, Given, Careful, PInv, CallsOK
<1>4. /\ w \notin raced => WatcherOK(w)
      /\ w \in raced => RacedOK(w)
      /\ reads \in [Watchers -> Nat]
  BY DEF Given, Fine, ReadTypes
<1>5. /\ Stage(call, w) = IF call[th].at = "drained" THEN "wait" ELSE "done"
      /\ Goal(call, w) = call[th].next
  BY <1>1, <1>3, CallOn, Properly
<1>6. w \notin active /\ (w \notin raced => w \in alive)
  BY <1>4, <1>5 DEF WatcherOK, RacedOK, Registered, Allocated
<1>7. w \notin raced => ~AtWork(w)
  <2>1. call[th].at = "drained" /\ w \notin raced => cur.obj # w
    BY <1>1 DEF Given, Barrier
  <2> QED
    BY <1>3, <1>4, <1>5, <1>6, <2>1 DEF WatcherOK, Backed, Registered, AtWork
<1>8. call[th].next = "cleanup" /\ w \notin raced => ~Flying(w)
  <2>1. CASE call[th].at = "done"
    BY <1>4, <1>5, <2>1 DEF WatcherOK, Freeing
  <2>2. CASE call[th].at = "drained" /\ w \notin raced
    <3>1. cur.obj # w /\ \A i \in DOMAIN Flow : Flow[i].obj # w
      BY <1>1, <2>2 DEF Given, Barrier
    <3>2. reads[w] = 0
      BY <1>4, <1>5, <2>2 DEF WatcherOK, Freeing
    <3> QED
      BY <3>1, <3>2 DEF Flying, ReadIn, ReadPacket
  <2> QED
    BY <1>3, <2>1, <2>2
<1>9. CASE /\ call[th].next = "idle" /\ Return(th)
           /\ UNCHANGED <<life, ptr, flags>>
  <2>1. /\ Stage(call', w) = "idle" /\ Goal(call', w) = "idle"
        /\ \A v \in Watchers \ {w} : SameCall(v)
    BY <1>1, <1>9, Returns
  <2>2. w \notin raced => WatcherOK(w)'
    BY <1>2, <1>4, <1>5, <1>6, <1>7, <1>9, <2>1
       DEF life, flags, WatcherOK, Allocated, SingleRead, Backed, Accounted, Registered,
           WritesOver, Freeing, Wanted, Held, Flying, AtWork, Over, ReadPacket
  <2>3. w \in raced => RacedOK(w)'
    BY <1>2, <1>4, <1>6, <1>9, <2>1 DEF life, flags, RacedOK, Flying, AtWork
  <2>4. ReadTypes'
    BY <1>2, <1>9 DEF Given, ReadTypes, life, flags
  <2>5. \A v \in Watchers \ {w} : Untouched(v)
    BY <1>2, <1>9, <2>1
       DEF Untouched, SameFlags, SameFlow, SameHandling, life, flags
  <2> QED
    BY <1>2, <2>2, <2>3, <2>4, <2>5, FineCases, OneTouched
<1>10. CASE /\ call[th].next = "cleanup"
            /\ call' = [call EXCEPT ![th].at = "unregister", ![th].next = "free"]
            /\ UNCHANGED <<life, ptr, flags>>
  <2>1. call[th] \in WatcherCalls
    BY <1>1, InCall
  <2>2. /\ call'[th].obj = w /\ call'[th].at = "unregister" /\ call'[th].next = "free"
        /\ \A u \in Threads \ {th} : call'[u] = call[u]
    BY <1>1, <1>10, <2>1, Properly DEF ProperCalls, WatcherCalls
  <2>3. /\ Stage(call', w) = "unregister" /\ Goal(call', w) = "free"
        /\ \A v \in Watchers \ {w} : SameCall(v)
    BY <1>1, <2>2, GoesOn
  <2>4. w \notin raced => WatcherOK(w)'
    BY <1>2, <1>4, <1>5, <1>6, <1>7, <1>8, <1>10, <2>3
       DEF life, flags, WatcherOK, Allocated, SingleRead, Backed, Accounted, Registered,
           WritesOver, Freeing, Wanted, Held, Flying, AtWork, Over, ReadPacket
  <2>5. w \in raced => RacedOK(w)'
    BY <1>2, <1>4, <1>6, <1>10, <2>3 DEF life, flags, RacedOK, Flying, AtWork
  <2>6. ReadTypes'
    BY <1>2, <1>10 DEF Given, ReadTypes, life, flags
  <2>7. \A v \in Watchers \ {w} : Untouched(v)
    BY <1>2, <1>10, <2>3
       DEF Untouched, SameFlags, SameFlow, SameHandling, life, flags
  <2> QED
    BY <1>2, <2>4, <2>5, <2>6, <2>7, FineCases, OneTouched
<1>11. CASE /\ call[th].next = "free" /\ Return(th)
            /\ alive' = alive \ {w} /\ active' = active \ {w}
            /\ wants' = wants \ {w} /\ ended' = ended \ {w}
            /\ ptr' = ptr \ {w} /\ pending' = pending \ {w}
            /\ stopping' = stopping \ {w} /\ avail' = avail \ {w}
  <2>1. /\ Stage(call', w) = "idle" /\ Goal(call', w) = "idle"
        /\ \A v \in Watchers \ {w} : SameCall(v)
    BY <1>1, <1>11, Returns
  <2>2. w \notin raced => Over(w)
    BY <1>4, <1>5, <1>11 DEF WatcherOK, Freeing, Over
  <2>3. w \notin raced => WatcherOK(w)'
    BY <1>2, <1>4, <1>5, <1>6, <1>7, <1>11, <2>1, <2>2
       DEF WatcherOK, Allocated, SingleRead, Backed, Accounted, Registered,
           WritesOver, Freeing, Wanted, Held, Flying, AtWork, Over, ReadPacket
  <2>4. w \in raced => RacedOK(w)'
    BY <1>11, <2>1 DEF RacedOK
  <2>5. ReadTypes'
    BY <1>2, <1>11 DEF Given, ReadTypes
  <2>6. \A v \in Watchers \ {w} : Untouched(v)
    BY <1>2, <1>11, <2>1 DEF Untouched, SameFlags, SameFlow, SameHandling
  <2> QED
    BY <1>2, <2>3, <2>4, <2>5, <2>6, FineCases, OneTouched
<1> QED
  BY <1>1, <1>9, <1>10, <1>11 DEF WatcherCallDone

\* The kernel completes a read
LEMMA ReadCompletesKeeps ==
  ASSUME Given, NEW w \in Watchers, NEW res \in {"data", "eof", "error", "cancelled"},
         ReadCompletes(w, res)
  PROVE  Kept
<1>1. /\ batch' = batch /\ cur' = cur /\ lpc' = lpc /\ ran' = ran /\ call' = call
      /\ UNCHANGED <<life, ptr, datum, flags, writes, raced>>
      /\ res # "cancelled"
  BY DEF ReadCompletes, Given, Careful
<1>2. /\ w \notin raced => WatcherOK(w)
      /\ w \in raced => RacedOK(w)
      /\ reads \in [Watchers -> Nat]
  BY DEF Given, Fine, ReadTypes
<1>3. /\ reads[w] # 0 /\ reads' = [reads EXCEPT ![w] = reads[w] - 1]
      /\ reads' \in [Watchers -> Nat]
      /\ w \notin raced => reads'[w] = 0
  <2>1. reads[w] > 0 /\ reads' = [reads EXCEPT ![w] = reads[w] - 1]
    BY DEF ReadCompletes
  <2>2. reads[w] # 0 /\ reads[w] - 1 \in Nat
    BY <1>2, <2>1
  <2>3. w \notin raced => reads[w] = 1
    BY <1>2, <2>2 DEF WatcherOK, SingleRead
  <2>4. reads' \in [Watchers -> Nat]
    BY <1>2, <2>1, <2>2
  <2>5. w \notin raced => reads'[w] = 0
    BY <1>2, <2>1, <2>3
  <2> QED
    BY <2>1, <2>2, <2>4, <2>5
<1> DEFINE p == Packet("read", w, res)
<1>4. p \in Packets /\ p.kind = "read" /\ p.obj = w /\ p.res = res /\ ReadPacket(w, p)
  BY DEF Packet, Packets, ReadPacket
<1>5. queue' = Append(queue, p)
  BY DEF ReadCompletes
<1> HIDE DEF p
<1>6. Posted(p)
  BY <1>1, <1>4, <1>5, QueueGrows DEF Given, PInv, PortOK
<1>7. w \notin raced => OneReadIn(Flow, w) /\ ~ReadIn(Flow, w)
  BY <1>2, <1>3 DEF WatcherOK, SingleRead
<1>8. /\ ReadIn(Flow', w)
      /\ w \notin raced => OneReadIn(Flow', w)
      /\ StaleIn(Flow', w) <=> StaleIn(Flow, w)
      /\ WriteIn(Flow', w) <=> WriteIn(Flow, w)
  BY <1>1, <1>4, <1>6, <1>7, PostedFlow DEF Given, PInv
<1>9. \A v \in Watchers \ {w} : SameFlow(v)
  BY <1>4, <1>6, PostedFlow DEF Given, PInv
<1>10. w \notin raced => WatcherOK(w)'
  BY <1>1, <1>2, <1>3, <1>8
     DEF life, flags, WatcherOK, Allocated, SingleRead, Backed, Accounted, Registered,
         WritesOver, Freeing, Wanted, Held, Flying, AtWork, Over, ReadPacket
<1>11. w \in raced => RacedOK(w)'
  BY <1>1, <1>2, <1>3, <1>8
     DEF life, flags, RacedOK, Flying, AtWork, ReadPacket
<1>12. ReadTypes'
  BY <1>1, <1>2, <1>3 DEF Given, ReadTypes, life, flags
<1>13. \A v \in Watchers \ {w} : Untouched(v)
  BY <1>1, <1>2, <1>3, <1>9
     DEF Untouched, SameFlags, SameCall, SameHandling, life, flags
<1> QED
  BY <1>1, <1>10, <1>11, <1>12, <1>13, FineCases, OneTouched

\* The application's writes
LEMMA WriteIssueKeeps ==
  ASSUME Given, NEW w \in Watchers, WriteIssue(w)
  PROVE  Kept
<1>1. /\ Flow' = Flow /\ cur' = cur /\ lpc' = lpc /\ ran' = ran /\ call' = call
      /\ UNCHANGED <<life, ptr, datum, flags, reads, raced>>
      /\ writes' = [writes EXCEPT ![w] = 1] /\ w \in active
  BY DEF WriteIssue, pvars, Flow
<1>2. /\ w \notin raced => WatcherOK(w)
      /\ w \in raced => RacedOK(w)
      /\ writes \in [Watchers -> 0..1]
  BY DEF Given, Fine, ReadTypes
<1>3. w \notin raced => WatcherOK(w)'
  BY <1>1, <1>2
     DEF life, flags, WatcherOK, Allocated, SingleRead, Backed, Accounted, Registered,
         WritesOver, Freeing, Wanted, Held, Flying, AtWork, Over, ReadPacket
<1>4. w \in raced => RacedOK(w)'
  BY <1>1, <1>2 DEF life, flags, RacedOK, Flying, AtWork, ReadPacket
<1>5. ReadTypes'
  BY <1>1, <1>2 DEF Given, ReadTypes, life, flags
<1>6. \A v \in Watchers \ {w} : Untouched(v)
  BY <1>1, <1>2
     DEF Untouched, SameFlags, SameFlow, SameCall, SameHandling, life, flags
<1> QED
  BY <1>1, <1>3, <1>4, <1>5, <1>6, FineCases, OneTouched

LEMMA WriteCompletesKeeps ==
  ASSUME Given, NEW w \in Watchers, WriteCompletes(w)
  PROVE  Kept
<1>1. /\ batch' = batch /\ cur' = cur /\ lpc' = lpc /\ ran' = ran /\ call' = call
      /\ UNCHANGED <<life, ptr, datum, flags, reads, raced>>
      /\ writes' = [writes EXCEPT ![w] = 0]
  BY DEF WriteCompletes
<1>2. /\ w \notin raced => WatcherOK(w)
      /\ w \in raced => RacedOK(w)
      /\ writes \in [Watchers -> 0..1]
  BY DEF Given, Fine, ReadTypes
<1>3. w \notin raced => w \in active
  BY <1>2 DEF WriteCompletes, WatcherOK, WritesOver
<1> DEFINE p == Packet("write", w, "none")
<1>4. p \in Packets /\ p.obj = w /\ ~ReadPacket(w, p)
  BY DEF Packet, Packets, ReadPacket
<1>5. queue' = Append(queue, p)
  BY DEF WriteCompletes
<1> HIDE DEF p
<1>6. Posted(p)
  BY <1>1, <1>4, <1>5, QueueGrows DEF Given, PInv, PortOK
<1>7. /\ ReadIn(Flow', w) <=> ReadIn(Flow, w)
      /\ StaleIn(Flow', w) <=> StaleIn(Flow, w)
      /\ OneReadIn(Flow, w) => OneReadIn(Flow', w)
  BY <1>4, <1>6, PostedFlow DEF Given, PInv
<1>8. \A v \in Watchers \ {w} : SameFlow(v)
  BY <1>4, <1>6, PostedFlow DEF Given, PInv
<1>9. w \notin raced => WatcherOK(w)'
  BY <1>1, <1>2, <1>3, <1>7
     DEF life, flags, WatcherOK, Allocated, SingleRead, Backed, Accounted, Registered,
         WritesOver, Freeing, Wanted, Held, Flying, AtWork, Over, ReadPacket
<1>10. w \in raced => RacedOK(w)'
  BY <1>1, <1>2, <1>7 DEF life, flags, RacedOK, Flying, AtWork, ReadPacket
<1>11. ReadTypes'
  BY <1>1, <1>2 DEF Given, ReadTypes, life, flags
<1>12. \A v \in Watchers \ {w} : Untouched(v)
  BY <1>1, <1>2, <1>8
     DEF Untouched, SameFlags, SameCall, SameHandling, life, flags
<1> QED
  BY <1>1, <1>9, <1>10, <1>11, <1>12, FineCases, OneTouched


\* The loop thread is not creating a watcher while it dispatches
LEMMA NotArming ==
  ASSUME Given, NEW w \in Watchers, lpc \notin {"out", "callback"}
  PROVE  Stage(call, w) # "arm"
<1>1. SUFFICES ASSUME Stage(call, w) = "arm" PROVE FALSE
  OBVIOUS
<1>2. PICK th \in Threads : call[th].obj = w
  BY <1>1, Properly, StageCases
<1>3. Whose(call, w) = "loop"
  BY <1>1 DEF Given, Fine, RacedOK, WatcherOK, Allocated
<1>4. th = LoopThread
  BY <1>2, <1>3, CallOn, Properly
<1> QED
  BY <1>2, <1>4, Apart DEF Given, PInv, PortOK, Idle

\* Between two packets, or within one, the loop thread is not in a call
LEMMA NotTheLoops ==
  ASSUME Given, NEW w \in Watchers, lpc \notin {"out", "callback"}
  PROVE  Whose(call, w) # "loop" /\ ran = TRUE
<1>1. ran = TRUE
  BY DEF Given, PInv, PortOK
<1>2. ASSUME Whose(call, w) = "loop" PROVE FALSE
  <2>1. PICK th \in Threads : call[th].obj = w
    BY <1>2 DEF Whose, Busy
  <2>2. th = LoopThread
    BY <1>2, <2>1, CallOn, Properly
  <2> QED
    BY <2>1, <2>2, Apart DEF Given, PInv, PortOK, Idle
<1> QED
  BY <1>1, <1>2

\* The loop thread takes up a packet of a watcher
LEMMA ExamineKeeps ==
  ASSUME Given, Examine
  PROVE  Kept
<1>1. PICK p : p = Head(batch)
  OBVIOUS
<1>2. Dispatched
  BY BatchShrinks DEF Examine, AtDispatch, Given, PInv, PortOK
<1>3. WellFormed(p) /\ p \in Packets /\ p.kind \in {"read", "write"}
  BY <1>1, <1>2, DispatchedFlow DEF Examine, AtDispatch, Given, PInv
<1>4. PICK w \in Watchers : p.obj = w
  BY <1>3 DEF WellFormed
<1>5. /\ lpc = "dispatch" /\ cur = NoPacket /\ cur.obj = Nobody /\ cur.kind = "none"
      /\ UNCHANGED <<ran, call, life, reads, writes, raced>>
  BY DEF Examine, AtDispatch, Given, PInv, PortOK, Handling, NoPacket
<1>6. /\ w \notin raced => WatcherOK(w)
      /\ w \in raced => RacedOK(w)
      /\ Stage(call, w) # "arm" /\ w # Nobody
  BY <1>5, NotArming, Apart DEF Given, Fine
<1>7. /\ ReadIn(Flow, w) <=> ReadIn(Flow', w) \/ ReadPacket(w, p)
      /\ WriteIn(Flow', w) => WriteIn(Flow, w)
      /\ p.kind = "write" => WriteIn(Flow, w)
      /\ StaleIn(Flow, w) <=> StaleIn(Flow', w) \/ (ReadPacket(w, p) /\ p.res = "cancelled")
      /\ OneReadIn(Flow, w) => OneReadIn(Flow', w)
      /\ OneReadIn(Flow, w) /\ ReadPacket(w, p) => ~ReadIn(Flow', w)
  BY <1>1, <1>2, <1>4, DispatchedFlow DEF Given, PInv
<1>8. \A v \in Watchers \ {w} : SameFlow(v)
  BY <1>1, <1>2, <1>4, DispatchedFlow DEF Given, PInv
<1>9. CASE w \in ptr /\ w \in stopping /\ FreeDatum(w) /\ UNCHANGED <<cur, lpc>>
  <2>1. w \notin active
    BY <1>6, <1>9 DEF WatcherOK, Registered, RacedOK
  <2>2. w \notin raced => ReadPacket(w, p)
    BY <1>3, <1>4, <1>6, <1>7, <2>1 DEF WatcherOK, WritesOver, ReadPacket
  <2>3. w \notin raced => WatcherOK(w)'
    BY <1>5, <1>6, <1>7, <1>9, <2>1, <2>2
       DEF FreeDatum, life, WatcherOK, Allocated, SingleRead, Backed, Accounted, Registered,
           WritesOver, Freeing, Wanted, Held, Flying, AtWork, Over, ReadPacket
  <2>4. w \in raced => RacedOK(w)'
    BY <1>5, <1>6, <1>9, <2>1 DEF FreeDatum, life, RacedOK
  <2>5. ReadTypes'
    BY <1>5, <1>9 DEF Given, ReadTypes, FreeDatum, life
  <2>6. \A v \in Watchers \ {w} : Untouched(v)
    BY <1>5, <1>8, <1>9
       DEF Untouched, SameFlags, SameCall, SameHandling, FreeDatum, life
  <2> QED
    BY <1>5, <2>3, <2>4, <2>5, <2>6, FineCases, OneTouched
<1>10. CASE w \notin ptr /\ UNCHANGED <<cur, lpc, ptr, datum, flags>>
  <2>1. w \notin active
    BY <1>6, <1>10 DEF WatcherOK, Registered, RacedOK
  <2>2. w \notin raced => WatcherOK(w)'
    BY <1>5, <1>6, <1>7, <1>10, <2>1
       DEF flags, life, WatcherOK, Allocated, SingleRead, Backed, Accounted, Registered,
           WritesOver, Freeing, Wanted, Held, Flying, AtWork, Over, ReadPacket
  <2>3. w \in raced => RacedOK(w)'
    BY <1>5, <1>6, <1>10, <2>1 DEF flags, life, RacedOK
  <2>4. ReadTypes'
    BY <1>5, <1>10 DEF Given, ReadTypes, flags, life
  <2>5. \A v \in Watchers \ {w} : Untouched(v)
    BY <1>5, <1>8, <1>10
       DEF Untouched, SameFlags, SameCall, SameHandling, flags, life
  <2> QED
    BY <1>5, <2>2, <2>3, <2>4, <2>5, FineCases, OneTouched
<1>11. CASE /\ w \in ptr /\ w \notin stopping /\ p.kind = "write"
            /\ cur' = Packet("write", w, "WRITE") /\ lpc' = "callback"
            /\ UNCHANGED <<ptr, datum, flags>>
  <2>1. cur'.kind = "write" /\ cur'.obj = w
    BY <1>11 DEF Packet
  <2>2. w \notin raced => WatcherOK(w)'
    BY <1>5, <1>6, <1>7, <1>11, <2>1
       DEF flags, life, WatcherOK, Allocated, SingleRead, Backed, Accounted, Registered,
           WritesOver, Freeing, Wanted, Held, Flying, AtWork, Over, ReadPacket
  <2>3. w \in raced => RacedOK(w)'
    BY <1>5, <1>6, <1>7, <1>11, <2>1
       DEF flags, life, RacedOK, Flying, AtWork, ReadPacket
  <2>4. ReadTypes'
    BY <1>5, <1>11 DEF Given, ReadTypes, flags, life
  <2>5. \A v \in Watchers \ {w} : Untouched(v)
    BY <1>5, <1>8, <1>11, <2>1, Apart
       DEF Untouched, SameFlags, SameCall, SameHandling, flags, life
  <2> QED
    BY <1>5, <2>2, <2>3, <2>4, <2>5, FineCases, OneTouched
<1>12. CASE /\ w \in ptr /\ w \notin stopping /\ p.kind = "read"
            /\ cur' = p /\ lpc' = "examined"
            /\ UNCHANGED <<ptr, datum, flags>>
  <2>1. ReadPacket(w, p)
    BY <1>4, <1>12 DEF ReadPacket
  <2>2. w \notin raced => WatcherOK(w)'
    BY <1>5, <1>6, <1>7, <1>12, <2>1
       DEF flags, life, WatcherOK, Allocated, SingleRead, Backed, Accounted, Registered,
           WritesOver, Freeing, Wanted, Held, Flying, AtWork, Over, ReadPacket
  <2>3. w \in raced => RacedOK(w)'
    BY <1>5, <1>6, <1>7, <1>12, <2>1
       DEF flags, life, RacedOK, Flying, AtWork, ReadPacket
  <2>4. ReadTypes'
    BY <1>5, <1>12 DEF Given, ReadTypes, flags, life
  <2>5. \A v \in Watchers \ {w} : Untouched(v)
    BY <1>4, <1>5, <1>8, <1>12, Apart
       DEF Untouched, SameFlags, SameCall, SameHandling, flags, life
  <2> QED
    BY <1>5, <2>2, <2>3, <2>4, <2>5, FineCases, OneTouched
<1> QED
  BY <1>1, <1>4, <1>9, <1>10, <1>11, <1>12 DEF Examine

\* pending_operation is cleared and the event is made out
LEMMA ClassifyKeeps ==
  ASSUME Given, Classify
  PROVE  Kept
<1>1. PICK w \in Watchers : cur.obj = w
  BY DEF Classify, Given, PInv, PortOK, Handling
<1>2. /\ Flow' = Flow /\ lpc = "examined"
      /\ UNCHANGED <<ran, call, alive, active, wants, ptr, datum, stopping, reads, writes,
                     raced>>
      /\ pending' = pending \ {w}
  BY <1>1 DEF Classify, Flow
<1>3. /\ w \notin raced => WatcherOK(w)
      /\ w \in raced => RacedOK(w)
      /\ Stage(call, w) # "arm" /\ w # Nobody
  BY <1>2, NotArming, Apart DEF Given, Fine
<1>4. /\ ReadPacket(w, cur) /\ Held(w) /\ AtWork(w)
      /\ cur.res \in {"data", "eof", "error", "cancelled"}
      /\ w \notin raced => w \in pending /\ w \in ptr
  BY <1>1, <1>2, <1>3
     DEF Given, PInv, PortOK, Handling, ReadPacket, Held, AtWork, WatcherOK, Backed
<1>5. w \notin raced => reads[w] = 0 /\ ~ReadIn(Flow, w) /\ ~StaleIn(Flow, w)
  <2>1. w \notin raced => ~Flying(w)
    BY <1>3, <1>4 DEF WatcherOK, SingleRead
  <2> QED
    BY <2>1, StaleIsRead DEF Flying
<1>6. CASE /\ cur.res = "cancelled" /\ cur' = NoPacket /\ lpc' = "dispatch"
           /\ UNCHANGED <<avail, ended>>
  <2>1. cur'.obj # w
    BY <1>3, <1>6 DEF NoPacket
  <2>2. w \notin raced => ~(Steady /\ w \in active /\ w \in wants)
    BY <1>3, <1>4, <1>6 DEF WatcherOK, Wanted
  <2>3. w \notin raced => WatcherOK(w)'
    BY <1>2, <1>3, <1>4, <1>5, <1>6, <2>1, <2>2
       DEF WatcherOK, Allocated, SingleRead, Backed, Accounted, Registered,
           WritesOver, Freeing, Wanted, Held, Flying, AtWork, Over, ReadPacket
  <2>4. w \in raced => RacedOK(w)'
    BY <1>2, <1>3, <1>4, <1>6, <2>1 DEF RacedOK, Flying, AtWork, ReadPacket
  <2>5. ReadTypes'
    BY <1>2, <1>6 DEF Given, ReadTypes
  <2>6. \A v \in Watchers \ {w} : Untouched(v)
    BY <1>1, <1>2, <1>6, Apart
       DEF Untouched, SameFlags, SameFlow, SameCall, SameHandling, NoPacket
  <2> QED
    BY <1>2, <2>3, <2>4, <2>5, <2>6, FineCases, OneTouched
<1>7. ASSUME NEW ev \in {"READ", "HANGUP", "ERROR", "NONE"}, ev = "NONE" => w \notin pending,
             cur' = Packet("read", w, ev), lpc' = "callback", cur.res # "cancelled",
             avail' = IF ev = "READ" THEN avail \cup {w} ELSE avail,
             ended' = IF ev \in {"HANGUP", "ERROR"} THEN ended \cup {w} ELSE ended
      PROVE  Kept
  <2>1. cur'.kind = "read" /\ cur'.obj = w /\ cur'.res = ev
    BY <1>7 DEF Packet
  <2>3. ASSUME w \notin raced PROVE WatcherOK(w)'
    <3>0. ev # "NONE"
      BY <1>4, <1>7, <2>3
    <3>1. CASE ev = "READ"
      BY <1>2, <1>3, <1>4, <1>5, <1>7, <2>1, <2>3, <3>1
         DEF WatcherOK, Allocated, SingleRead, Backed, Accounted, Registered,
             WritesOver, Freeing, Wanted, Held, Flying, AtWork, Over, ReadPacket
    <3>2. CASE ev \in {"HANGUP", "ERROR"}
      BY <1>2, <1>3, <1>4, <1>5, <1>7, <2>1, <2>3, <3>2
         DEF WatcherOK, Allocated, SingleRead, Backed, Accounted, Registered,
             WritesOver, Freeing, Wanted, Held, Flying, AtWork, Over, ReadPacket
    <3> QED
      BY <3>0, <3>1, <3>2
  <2>4. w \in raced => RacedOK(w)'
    BY <1>2, <1>3, <1>4, <1>7, <2>1 DEF RacedOK, Flying, AtWork, ReadPacket
  <2>5. ReadTypes'
    BY <1>2, <1>7 DEF Given, ReadTypes
  <2>6. \A v \in Watchers \ {w} : Untouched(v)
    BY <1>1, <1>2, <1>7, <2>1
       DEF Untouched, SameFlags, SameFlow, SameCall, SameHandling
  <2> QED
    BY <1>2, <2>3, <2>4, <2>5, <2>6, FineCases, OneTouched
<1>8. /\ EventOf(w, cur.res) \in {"READ", "HANGUP", "ERROR", "NONE"}
      /\ EventOf(w, cur.res) = "NONE" => w \notin pending
  BY <1>4 DEF EventOf
<1> QED
  BY <1>1, <1>6, <1>7, <1>8 DEF Classify


\* The callback drains the buffer
LEMMA DrainKeeps ==
  ASSUME Given, DrainRead
  PROVE  Kept
<1>1. PICK w \in Watchers : cur.obj = w
  BY DEF DrainRead, Given, ReadTypes
<1>2. /\ Flow' = Flow /\ cur' = cur /\ lpc' = lpc /\ ran' = ran /\ call' = call
      /\ UNCHANGED <<life, ptr, datum, pending, stopping, reads, writes, raced>>
      /\ avail' = avail \ {w}
  BY <1>1 DEF DrainRead, pvars, Flow
<1>3. /\ w \notin raced => WatcherOK(w)
      /\ w \in raced => RacedOK(w)
  BY DEF Given, Fine
<1>4. w \notin raced => WatcherOK(w)'
  BY <1>2, <1>3
     DEF life, WatcherOK, Allocated, SingleRead, Backed, Accounted, Registered,
         WritesOver, Freeing, Wanted, Held, Flying, AtWork, Over, ReadPacket
<1>5. w \in raced => RacedOK(w)'
  BY <1>2, <1>3 DEF life, RacedOK, Flying, AtWork, ReadPacket
<1>6. ReadTypes'
  BY <1>2 DEF Given, ReadTypes, life
<1>7. \A v \in Watchers \ {w} : Untouched(v)
  BY <1>2 DEF Untouched, SameFlags, SameFlow, SameCall, SameHandling, life
<1> QED
  BY <1>2, <1>4, <1>5, <1>6, <1>7, FineCases, OneTouched

\* The callback of a watcher returns
LEMMA ReturnKeeps ==
  ASSUME Given, WatcherCallbackReturn
  PROVE  Kept
<1>1. PICK w \in Watchers : cur.obj = w
  BY DEF WatcherCallbackReturn
<1>2. /\ Flow' = Flow /\ ran' = ran /\ call' = call /\ lpc = "callback"
      /\ UNCHANGED rvars
      /\ IF cur.res = "READ" THEN lpc' = "rearm" /\ cur' = cur
                             ELSE lpc' = "dispatch" /\ cur' = NoPacket
  BY <1>1 DEF WatcherCallbackReturn, Flow
<1>3. /\ w \notin raced => WatcherOK(w)
      /\ w \in raced => RacedOK(w)
      /\ w # Nobody
  BY Apart DEF Given, Fine
<1>4. NoPacket.obj = Nobody /\ NoPacket.kind = "none"
  BY DEF NoPacket
<1>5. ASSUME cur.res = "READ"
      PROVE  (w \notin raced => WatcherOK(w)') /\ (w \in raced => RacedOK(w)')
  <2>1. w \notin raced => WatcherOK(w)'
    BY <1>1, <1>2, <1>3, <1>5
       DEF rvars, WatcherOK, Allocated, SingleRead, Backed, Accounted, Registered,
           WritesOver, Freeing, Wanted, Held, Flying, AtWork, Over, ReadPacket
  <2>2. w \in raced => RacedOK(w)'
    BY <1>1, <1>2, <1>3, <1>5 DEF rvars, RacedOK, Flying, AtWork, ReadPacket
  <2> QED
    BY <2>1, <2>2
<1>6. ASSUME cur.res # "READ"
      PROVE  (w \notin raced => WatcherOK(w)') /\ (w \in raced => RacedOK(w)')
  <2>1. w \notin raced => WatcherOK(w)'
    BY <1>1, <1>2, <1>3, <1>4, <1>6
       DEF rvars, WatcherOK, Allocated, SingleRead, Backed, Accounted, Registered,
           WritesOver, Freeing, Wanted, Held, Flying, AtWork, Over, ReadPacket
  <2>2. w \in raced => RacedOK(w)'
    BY <1>1, <1>2, <1>3, <1>4, <1>6 DEF rvars, RacedOK, Flying, AtWork, ReadPacket
  <2> QED
    BY <2>1, <2>2
<1>7. Fine(w)'
  BY <1>2, <1>5, <1>6, FineCases DEF rvars
<1>8. ReadTypes'
  BY <1>2 DEF Given, ReadTypes, rvars
<1>9. \A v \in Watchers \ {w} : Untouched(v)
  BY <1>1, <1>2, <1>4, Apart
     DEF Untouched, SameFlags, SameFlow, SameCall, SameHandling, rvars
<1> QED
  BY <1>7, <1>8, <1>9, OneTouched

\* The re-arm publishes pending_operation
LEMMA RearmKeeps ==
  ASSUME Given, Rearm
  PROVE  Kept
<1>1. PICK w \in Watchers : cur.obj = w
  BY DEF Rearm, Given, PInv, PortOK, Handling
<1>2. /\ Flow' = Flow /\ ran' = ran /\ call' = call /\ lpc = "rearm"
      /\ UNCHANGED <<life, ptr, datum, stopping, avail, reads, writes, raced>>
  BY DEF Rearm, Flow
<1>3. /\ w \notin raced => WatcherOK(w)
      /\ w \in raced => RacedOK(w)
      /\ w # Nobody /\ Stage(call, w) # "arm"
  BY <1>2, NotArming, Apart DEF Given, Fine
<1>4. cur.kind = "read" /\ cur.res = "READ"
  BY <1>2 DEF Given, PInv, PortOK, Handling, Packet
<1>5. NoPacket.obj = Nobody
  BY DEF NoPacket
<1>6. CASE /\ w \in ptr /\ w \notin stopping
           /\ pending' = pending \cup {w} /\ lpc' = "issue" /\ cur' = cur
  <2>1. w \notin raced => WatcherOK(w)'
    BY <1>1, <1>2, <1>3, <1>4, <1>6
       DEF life, WatcherOK, Allocated, SingleRead, Backed, Accounted, Registered,
           WritesOver, Freeing, Wanted, Held, Flying, AtWork, Over, ReadPacket
  <2>2. w \in raced => RacedOK(w)'
    BY <1>1, <1>2, <1>3, <1>4, <1>6 DEF life, RacedOK, Flying, AtWork, ReadPacket
  <2>3. ReadTypes'
    BY <1>2, <1>6 DEF Given, ReadTypes, life
  <2>4. \A v \in Watchers \ {w} : Untouched(v)
    BY <1>1, <1>2, <1>6
       DEF Untouched, SameFlags, SameFlow, SameCall, SameHandling, life
  <2> QED
    BY <1>2, <2>1, <2>2, <2>3, <2>4, FineCases, OneTouched
<1>7. CASE /\ ~(w \in ptr /\ w \notin stopping)
           /\ lpc' = "dispatch" /\ cur' = NoPacket /\ pending' = pending
  <2>1. w \notin active
    BY <1>3, <1>7 DEF WatcherOK, Registered, RacedOK
  <2>2. w \notin raced => WatcherOK(w)'
    BY <1>1, <1>2, <1>3, <1>5, <1>7, <2>1
       DEF life, WatcherOK, Allocated, SingleRead, Backed, Accounted, Registered,
           WritesOver, Freeing, Wanted, Held, Flying, AtWork, Over, ReadPacket
  <2>3. w \in raced => RacedOK(w)'
    BY <1>1, <1>2, <1>3, <1>5, <1>7, <2>1 DEF life, RacedOK, Flying, AtWork, ReadPacket
  <2>4. ReadTypes'
    BY <1>2, <1>7 DEF Given, ReadTypes, life
  <2>5. \A v \in Watchers \ {w} : Untouched(v)
    BY <1>1, <1>2, <1>5, <1>7, Apart
       DEF Untouched, SameFlags, SameFlow, SameCall, SameHandling, life
  <2> QED
    BY <1>2, <2>2, <2>3, <2>4, <2>5, FineCases, OneTouched
<1> QED
  BY <1>1, <1>6, <1>7 DEF Rearm

\* The re-arm issues the read, or fails
LEMMA IssueKeeps ==
  ASSUME Given, NEW ok \in BOOLEAN, RearmIssue(ok)
  PROVE  Kept
<1>1. PICK w \in Watchers : cur.obj = w
  BY DEF RearmIssue, Given, PInv, PortOK, Handling
<1>2. /\ Flow' = Flow /\ ran' = ran /\ call' = call
      /\ lpc = "issue" /\ lpc' = "dispatch" /\ cur' = NoPacket
      /\ UNCHANGED <<alive, active, wants, ptr, datum, stopping, avail, writes, raced>>
      /\ reads' = [reads EXCEPT ![w] = IF ok THEN reads[w] + 1 ELSE reads[w]]
      /\ pending' = With(pending, w, ok) /\ ended' = With(ended, w, ~ok)
  BY <1>1 DEF RearmIssue, Flow
<1>3. /\ w \notin raced => WatcherOK(w)
      /\ w \in raced => RacedOK(w)
      /\ w # Nobody /\ Stage(call, w) # "arm" /\ reads \in [Watchers -> Nat]
  BY <1>2, NotArming, Apart DEF Given, Fine, ReadTypes
<1>4. cur.kind = "read" /\ cur.res = "READ" /\ AtWork(w) /\ Held(w)
  BY <1>1, <1>2 DEF Given, PInv, PortOK, Handling, Packet, AtWork, Held, ReadPacket
<1>5. cur'.obj = Nobody
  BY <1>2 DEF NoPacket
<1>13. /\ ran = TRUE
       /\ Stage(call, w) # "idle" => Whose(call, w) = "worker"
  BY <1>2, NotTheLoops DEF Stage, Whose
<1>6. w \notin raced =>
        /\ reads[w] = 0 /\ ~ReadIn(Flow, w) /\ ~StaleIn(Flow, w)
        /\ w \in ptr /\ (w \in stopping => Stage(call, w) = "cancel")
  <2>1. w \notin raced => ~Flying(w)
    BY <1>3, <1>4 DEF WatcherOK, SingleRead
  <2>2. w \notin raced => w \in ptr /\ (w \in stopping => Stage(call, w) = "cancel")
    BY <1>2, <1>3, <1>4 DEF WatcherOK, Backed
  <2> QED
    BY <2>1, <2>2, StaleIsRead DEF Flying
<1>7. reads' \in [Watchers -> Nat] /\ (ok => reads'[w] # 0)
  <2>1. reads[w] + 1 \in Nat /\ reads[w] + 1 # 0
    BY <1>3
  <2> QED
    BY <1>2, <1>3, <2>1
<1>8. /\ w \in pending' <=> ok
      /\ w \in ended' <=> ~ok
  BY <1>2 DEF With
<1>9. w \notin raced => WatcherOK(w)'
  <2> SUFFICES ASSUME w \notin raced PROVE WatcherOK(w)'
    OBVIOUS
  <2>1. CASE ok
    <3>1. reads[w] = 0
      BY <1>6
    <3>2. reads'[w] = reads[w] + 1
      BY <1>2, <1>3, <2>1
    <3>3. reads'[w] = 1 /\ w \in pending' /\ w \notin ended'
      BY <1>8, <2>1, <3>1, <3>2
    <3> QED
      BY <1>1, <1>2, <1>3, <1>4, <1>5, <1>6, <1>13, <3>3
         DEF WatcherOK, Allocated, SingleRead, Backed, Accounted, Registered,
             WritesOver, Freeing, Wanted, Held, Flying, AtWork, Over, ReadPacket
  <2>2. CASE ~ok
    <3>1. reads'[w] = 0 /\ w \notin pending' /\ w \in ended'
      BY <1>2, <1>3, <1>6, <1>8, <2>2
    <3> QED
      BY <1>1, <1>2, <1>3, <1>4, <1>5, <1>6, <3>1
         DEF WatcherOK, Allocated, SingleRead, Backed, Accounted, Registered,
             WritesOver, Freeing, Wanted, Held, Flying, AtWork, Over, ReadPacket
  <2> QED
    BY <2>1, <2>2
<1>10. w \in raced => RacedOK(w)'
  BY <1>1, <1>2, <1>3, <1>4, <1>5, <1>7, <1>8 DEF RacedOK, Flying, AtWork, ReadPacket
<1>11. ReadTypes'
  <2>1. pending' \subseteq Watchers /\ ended' \subseteq Watchers
    BY <1>2 DEF With, Given, ReadTypes
  <2> QED
    BY <1>2, <1>7, <2>1 DEF Given, ReadTypes
<1>12. \A v \in Watchers \ {w} : Untouched(v)
  <2> SUFFICES ASSUME NEW v \in Watchers, v # w PROVE Untouched(v)
    OBVIOUS
  <2>1. /\ reads'[v] = reads[v]
        /\ v \in pending' <=> v \in pending
        /\ v \in ended' <=> v \in ended
    BY <1>2, <1>3 DEF With
  <2> QED
    BY <1>1, <1>2, <1>5, <2>1, Apart
       DEF Untouched, SameFlags, SameFlow, SameCall, SameHandling
<1> QED
  BY <1>2, <1>9, <1>10, <1>11, <1>12, FineCases, OneTouched


-----------------------------------------------------------------------------
(* The steps that are not about watchers *)

LEMMA NoneTouched ==
  ASSUME Given, UNCHANGED rvars, \A v \in Watchers : SameFlow(v),
         \A v \in Watchers : SameCall(v), \A v \in Watchers : SameHandling(v)
  PROVE  Kept
<1>1. ReadTypes'
  BY DEF Given, ReadTypes, rvars
<1>2. \A v \in Watchers : Untouched(v)
  BY DEF Untouched, SameFlags, rvars
<1> QED
  BY <1>1, <1>2, UntouchedOK DEF Given, Kept

\* Steps of one thread within calls on timers
LEMMA CallsElsewhere ==
  ASSUME Given, NEW th \in Threads, \A u \in Threads \ {th} : call'[u] = call[u],
         call[th].obj \notin Watchers, call'[th].obj \notin Watchers
  PROVE  \A v \in Watchers : SameCall(v)
BY Properly, OtherCalls

\* The loop thread between packets
LEMMA LoopKeeps ==
  ASSUME Given, UNCHANGED rvars, LoopEnter \/ TakeBatch \/ BatchDone
  PROVE  Kept
<1>1. call' = call /\ cur' = cur /\ (ran = TRUE => ran' = TRUE) /\ Flow' = Flow
  <2>1. CASE LoopEnter
    BY <2>1 DEF LoopEnter, Flow
  <2>2. CASE TakeBatch
    BY <2>2, BatchTaken DEF TakeBatch, Given, PInv, PortOK, Handling, Same
  <2>3. CASE BatchDone
    BY <2>3 DEF BatchDone, Flow
  <2> QED
    BY <2>1, <2>2, <2>3
<1>2. lpc \in {"out", "dispatch"}
  BY DEF LoopEnter, TakeBatch, BatchDone
<1>3. cur.obj = Nobody
  BY <1>2 DEF Given, PInv, PortOK, Handling, NoPacket
<1> QED
  BY <1>1, <1>3, Apart, NoneTouched DEF SameFlow, SameCall, SameHandling

\* The barrier's packet is posted
LEMMA PostSyncKeeps ==
  ASSUME Given, UNCHANGED rvars, NEW th \in Threads, PostSync(th)
  PROVE  Kept
<1>1. /\ batch' = batch /\ cur' = cur /\ lpc' = lpc /\ ran' = ran
      /\ call[th].at = "post" /\ GoTo(th, "drain")
  BY DEF PostSync
<1> DEFINE p == Packet("sync", th, "none")
<1>2. p \in Packets /\ p.obj = th
  BY DEF Packet, Packets
<1>3. queue' = Append(queue, p)
  BY DEF PostSync
<1> HIDE DEF p
<1>4. Posted(p)
  BY <1>1, <1>2, <1>3, QueueGrows DEF Given, PInv, PortOK
<1>5. \A v \in Watchers : SameFlow(v)
  BY <1>2, <1>4, PostedFlow, Apart DEF Given, PInv
<1>6. \A v \in Watchers : SameCall(v)
  <2>1. /\ call'[th] = [at |-> "drain", obj |-> call[th].obj, next |-> call[th].next]
        /\ \A u \in Threads \ {th} : call'[u] = call[u]
    BY <1>1, GoToCall DEF Given, PInv
  <2>2. CASE call[th].obj \notin Watchers
    BY <2>1, <2>2, CallsElsewhere
  <2>3. CASE call[th].obj \in Watchers
    <3>1. PICK w \in Watchers : call[th].obj = w
      BY <2>3
    <3>2. /\ Stage(call, w) = "wait" /\ Stage(call', w) = "wait"
          /\ Goal(call', w) = Goal(call, w) /\ Whose(call', w) = Whose(call, w)
          /\ \A v \in Watchers \ {w} : SameCall(v)
      BY <1>1, <3>1, GoesTo
    <3> QED
      BY <3>2 DEF SameCall
  <2> QED
    BY <2>2, <2>3
<1> QED
  BY <1>1, <1>5, <1>6, NoneTouched DEF SameHandling

\* The barrier's packet is dispatched
LEMMA DispatchSyncKeeps ==
  ASSUME Given, UNCHANGED rvars, DispatchSync
  PROVE  Kept
<1>1. PICK p : p = Head(batch)
  OBVIOUS
<1>2. /\ Dispatched /\ cur' = cur /\ lpc' = lpc /\ ran' = ran
      /\ p.kind = "sync"
  BY <1>1, BatchShrinks
     DEF DispatchSync, AtDispatch, Drop, Given, PInv, PortOK
<1>3. p.obj \in Workers
  BY <1>1, <1>2, DispatchedFlow DEF WellFormed, Given, PInv
<1>4. \A v \in Watchers : SameFlow(v)
  BY <1>1, <1>2, <1>3, DispatchedFlow, Apart DEF Given, PInv
<1>5. \A v \in Watchers : SameCall(v)
  <2>1. PICK th \in Threads :
           /\ call[th].at = "drain"
           /\ call'[th] = [at |-> "drained", obj |-> call[th].obj, next |-> call[th].next]
           /\ \A u \in Threads \ {th} : call'[u] = call[u]
    BY AnswerMove DEF Given, PInv
  <2>2. call'[th].obj = call[th].obj /\ call'[th].at = "drained"
        /\ call'[th].next = call[th].next
    BY <2>1
  <2>3. CASE call[th].obj \notin Watchers
    BY <2>1, <2>2, <2>3, CallsElsewhere
  <2>4. CASE call[th].obj \in Watchers
    <3>1. PICK w \in Watchers : call[th].obj = w
      BY <2>4
    <3>2. /\ Stage(call, w) = "wait" /\ Stage(call', w) = "wait"
          /\ Goal(call', w) = Goal(call, w) /\ Whose(call', w) = Whose(call, w)
          /\ \A v \in Watchers \ {w} : SameCall(v)
      BY <2>1, <2>2, <3>1, GoesOn
    <3> QED
      BY <3>2 DEF SameCall
  <2> QED
    BY <2>3, <2>4
<1> QED
  BY <1>2, <1>4, <1>5, NoneTouched DEF SameHandling

\* Timers: their packets and callbacks
LEMMA TimerPacketKeeps ==
  ASSUME Given, UNCHANGED rvars,
         DispatchTimer \/ TimerCallbackReturn \/ \E t \in Timers : TimerPost(t)
  PROVE  Kept
<1>1. CASE DispatchTimer
  <2>1. PICK p : p = Head(batch)
    OBVIOUS
  <2>2. /\ Dispatched /\ ran' = ran /\ call' = call /\ lpc = "dispatch"
        /\ p.kind = "timer"
        /\ (cur' = Packet("timer", p.obj, "READ")) \/ (cur' = cur)
    BY <1>1, <2>1, BatchShrinks
       DEF DispatchTimer, AtDispatch, Given, PInv, PortOK
  <2>3. p.obj \in Timers
    BY <2>1, <2>2, DispatchedFlow DEF WellFormed, Given, PInv
  <2>4. \A v \in Watchers : SameFlow(v)
    BY <2>1, <2>2, <2>3, DispatchedFlow, Apart DEF Given, PInv
  <2>5. cur.obj = Nobody /\ cur'.obj \in Timers \cup {Nobody}
    BY <2>2, <2>3 DEF Given, PInv, PortOK, Handling, NoPacket, Packet
  <2> QED
    BY <2>2, <2>4, <2>5, Apart, NoneTouched DEF SameCall, SameHandling
<1>2. CASE TimerCallbackReturn
  <2>1. Flow' = Flow /\ ran' = ran /\ call' = call /\ cur.obj \in Timers /\ cur'.obj = Nobody
    BY <1>2 DEF TimerCallbackReturn, Flow, NoPacket
  <2> QED
    BY <2>1, Apart, NoneTouched DEF SameFlow, SameCall, SameHandling
<1>3. ASSUME NEW t \in Timers, TimerPost(t) PROVE Kept
  <2> DEFINE p == Packet("timer", t, "none")
  <2>1. p \in Packets /\ p.obj = t
    BY DEF Packet, Packets
  <2>2. /\ queue' = Append(queue, p) /\ batch' = batch /\ cur' = cur /\ lpc' = lpc
        /\ ran' = ran /\ call' = call
    BY <1>3 DEF TimerPost
  <2> HIDE DEF p
  <2>3. Posted(p)
    BY <2>1, <2>2, QueueGrows DEF Given, PInv, PortOK
  <2>4. \A v \in Watchers : SameFlow(v)
    BY <2>1, <2>3, PostedFlow, Apart DEF Given, PInv
  <2> QED
    BY <2>2, <2>4, NoneTouched DEF SameCall, SameHandling
<1> QED
  BY <1>1, <1>2, <1>3

\* Timers: the calls
LEMMA TimerCallKeeps ==
  ASSUME Given, UNCHANGED rvars, NEW th \in Threads,
         \/ \E t \in Timers : TimerStop(th, t) \/ TimerDestroy(th, t)
         \/ TimerCallStep(th)
  PROVE  Kept
<1>1. CallMove(th) /\ call'[th].obj \in Timers \cup {Nobody}
  BY TimerCallMoves DEF Given, Careful, PInv, Answered, TimerCallStep
<1>2. queue' = queue /\ batch' = batch /\ cur' = cur /\ lpc' = lpc /\ ran' = ran
  BY DEF TimerStop, TimerDestroy, TimerCallStep, TimerDelete, TimerJoin, TimerMark,
         TimerFlush, TimerCallDone
<1>3. Flow' = Flow
  BY <1>2 DEF Flow
<1>4. call[th].obj \notin Watchers
  <2>1. CASE \E t \in Timers : TimerStop(th, t) \/ TimerDestroy(th, t)
    BY <2>1, Apart DEF TimerStop, TimerDestroy, MayCall, Idle
  <2>2. CASE TimerCallStep(th)
    <3>1. call[th] \in {Idle} \cup WatcherCalls \cup TimerCalls
      BY DEF Given, PInv, CallsOK
    <3>2. call[th].at \in {"delete", "join", "destroy", "flush"} \/ call[th].obj \in Timers
      BY <2>2
         DEF TimerCallStep, TimerDelete, TimerJoin, TimerMark, TimerFlush,
             TimerCallDone
    <3> QED
      BY <3>1, <3>2, Apart DEF WatcherCalls, TimerCalls, Idle
  <2> QED
    BY <2>1, <2>2
<1>5. \A v \in Watchers : SameCall(v)
  BY <1>1, <1>4, Apart, CallsElsewhere DEF CallMove
<1> QED
  BY <1>2, <1>3, <1>5, NoneTouched DEF SameFlow, SameHandling

\* Steps that leave the port alone too
LEMMA PortUnchanged ==
  ASSUME Given, UNCHANGED rvars, UNCHANGED pvars
  PROVE  Kept
<1>1. Flow' = Flow /\ cur' = cur /\ lpc' = lpc /\ ran' = ran /\ call' = call
  BY DEF pvars, Flow
<1> QED
  BY <1>1, NoneTouched DEF SameFlow, SameCall, SameHandling


-----------------------------------------------------------------------------
(* The invariant is inductive *)

LEMMA RInit == Init => RInv
<1> SUFFICES ASSUME Init PROVE RInv
  OBVIOUS
<1>1. /\ queue = <<>> /\ batch = <<>> /\ cur = NoPacket /\ lpc = "out" /\ ran = FALSE
      /\ call = [th \in Threads |-> Idle]
      /\ alive = {} /\ active = {} /\ wants = {} /\ ended = {} /\ ptr = {} /\ datum = {}
      /\ pending = {} /\ stopping = {} /\ avail = {}
      /\ reads = [w \in Watchers |-> 0] /\ writes = [w \in Watchers |-> 0] /\ raced = {}
  BY DEF Init, PortInit, ReadInit
<1>2. DOMAIN Flow = {}
  <2>1. queue \in Seq(Packets) /\ batch \in Seq(Packets)
    BY <1>1
  <2> QED
    BY <1>1, <2>1, ConcatEmptySeq DEF Flow
<1>3. ReadTypes
  BY <1>1 DEF ReadTypes
<1>4. ASSUME NEW w \in Watchers PROVE WatcherOK(w)
  <2>1. \A th \in Threads : call[th].obj # w
    BY <1>1, Apart DEF Idle
  <2>2. Stage(call, w) = "idle" /\ Goal(call, w) = "idle"
    BY <2>1, NoCallOn
  <2>3. ~ReadIn(Flow, w) /\ ~WriteIn(Flow, w) /\ ~StaleIn(Flow, w) /\ OneReadIn(Flow, w)
    BY <1>2 DEF ReadIn, WriteIn, StaleIn, OneReadIn
  <2>4. cur.obj # w /\ reads[w] = 0 /\ writes[w] = 0
    BY <1>1, Apart DEF NoPacket
  <2> QED
    BY <1>1, <2>2, <2>3, <2>4
       DEF WatcherOK, Allocated, SingleRead, Backed, Accounted, Registered,
           WritesOver, Freeing, Wanted, Held, Flying, AtWork, Over, ReadPacket
<1>5. \A w \in Watchers : Barrier({w})
  BY <1>1, <1>2 DEF Barrier, Idle
<1> QED
  BY <1>1, <1>3, <1>4, <1>5 DEF RInv, Fine

\* Every step keeps what is said of each watcher
LEMMA KeptByNext ==
  ASSUME Given, [Next]_vars
  PROVE  Kept
<1>1. CASE UNCHANGED vars
  BY <1>1, PortUnchanged DEF vars
<1>2. CASE Dispatch
  BY <1>2, LoopKeeps, DispatchSyncKeeps, ExamineKeeps, ClassifyKeeps, RearmKeeps, IssueKeeps,
     TimerPacketKeeps DEF Dispatch, WatcherDispatch
<1>3. CASE CallbackReturn
  BY <1>3, ReturnKeeps, TimerPacketKeeps DEF CallbackReturn
<1>4. CASE (LoopEnter \/ TakeBatch) /\ UNCHANGED <<rvars, tvars>>
  BY <1>4, LoopKeeps
<1>5. ASSUME NEW th \in Threads, CallStep(th) PROVE Kept
  BY <1>5, ArmKeeps, UnregisterKeeps, MarkKeeps, CancelKeeps, CallDoneKeeps, TimerCallKeeps,
     PostSyncKeeps DEF CallStep, WatcherCallStep
<1>6. CASE WatcherApi
  BY <1>6, StartKeeps, StopKeeps, DestroyKeeps, CreateKeeps, UpdateKeeps
     DEF WatcherApi
<1>7. CASE WatcherKernel
  BY <1>7, ReadCompletesKeeps, WriteIssueKeeps, WriteCompletesKeeps
     DEF WatcherKernel
<1>8. CASE DrainRead
  BY <1>8, DrainKeeps
<1>9. CASE TimerApi /\ UNCHANGED rvars
  <2>1. PICK th \in Threads, t \in Timers :
          \/ TimerCreate(th, t) \/ TimerStart(th, t)
          \/ TimerStop(th, t) \/ TimerDestroy(th, t)
    BY <1>9 DEF TimerApi
  <2>2. CASE TimerCreate(th, t) \/ TimerStart(th, t)
    BY <1>9, <2>2, PortUnchanged DEF TimerCreate, TimerStart
  <2>3. CASE TimerStop(th, t) \/ TimerDestroy(th, t)
    BY <1>9, <2>3, TimerCallKeeps
  <2> QED
    BY <2>1, <2>2, <2>3
<1>10. CASE TimerPool /\ UNCHANGED rvars
  <2>1. PICK t \in Timers : TimerFire(t) \/ TimerPost(t)
    BY <1>10 DEF TimerPool
  <2>2. CASE TimerFire(t)
    BY <1>10, <2>2, PortUnchanged DEF TimerFire
  <2>3. CASE TimerPost(t)
    BY <1>10, <2>3, TimerPacketKeeps
  <2> QED
    BY <2>1, <2>2, <2>3
<1> QED
  BY <1>1, <1>2, <1>3, <1>4, <1>5, <1>6, <1>7, <1>8, <1>9, <1>10 DEF Next

\* What was raced stays so
LEMMA RacedGrows ==
  ASSUME [Next]_vars
  PROVE  raced \subseteq raced'
<1>1. CASE UNCHANGED vars
  BY <1>1 DEF vars, rvars
<1>2. CASE UNCHANGED rvars
  BY <1>2 DEF rvars
<1>3. CASE WatcherDispatch
  BY <1>3 DEF WatcherDispatch, Examine, Classify, Rearm, RearmIssue
<1>4. CASE WatcherCallbackReturn
  BY <1>4 DEF WatcherCallbackReturn, rvars
<1>5. ASSUME NEW th \in Threads, WatcherCallStep(th) PROVE raced \subseteq raced'
  BY <1>5 DEF WatcherCallStep, RegisterArm, Unregister, Mark, Cancel, WatcherCallDone, Races
<1>6. CASE WatcherApi
  BY <1>6 DEF WatcherApi, Start, Stop, Destroy, WatcherCreate, Update, Races
<1>7. CASE WatcherKernel \/ DrainRead
  BY <1>7 DEF WatcherKernel, ReadCompletes, WriteIssue, WriteCompletes, DrainRead
<1> QED
  BY <1>1, <1>2, <1>3, <1>4, <1>5, <1>6, <1>7 DEF Next, Dispatch, CallbackReturn, CallStep

LEMMA RStep ==
  ASSUME Careful, PInv, RInv, [Next]_vars
  PROVE  PInv' /\ RInv'
<1>1. Answered /\ Flushed
  BY DEF Careful, Answered
<1>2. PInv'
  BY <1>1, PStep
<1>3. PortOK' /\ CallsOK' /\ Shape
  BY <1>1, StepShape DEF PInv
<1>4. Given
  BY <1>3 DEF Given, RInv
<1>5. ReadTypes' /\ \A w \in Watchers : Fine(w)'
  BY <1>4, KeptByNext DEF Kept
<1>6. ASSUME NEW w \in Watchers, w \notin raced'
      PROVE  Barrier({w})'
  <2>1. WatcherOK(w) /\ Barrier({w})
    BY <1>6, RacedGrows DEF RInv, Fine
  <2>2. ASSUME NEW p \in Packets, NEW th \in Threads, WellFormed(p), Origin(p),
               call[th].at \in {"drain", "drained"}, call[th].obj \in {w}
        PROVE  p.obj # call[th].obj
    <3>1. Stage(call, w) = "wait"
      BY <1>4, <2>2, CallOn, Properly
    <3>2. reads[w] = 0 /\ writes[w] = 0
      BY <2>1, <3>1 DEF WatcherOK, Freeing, Registered, WritesOver
    <3> QED
      BY <2>2, <3>2, Apart DEF WellFormed, Origin
  <2> QED
    BY <1>3, <2>1, <2>2, Apart, BarrierStep DEF PInv
<1> QED
  BY <1>2, <1>5, <1>6 DEF RInv

LEMMA RAlways ==
  ASSUME Careful
  PROVE  Spec => [](PInv /\ RInv)
BY PInit, RInit, RStep, PTL DEF Spec


-----------------------------------------------------------------------------
(* What follows, for every application that keeps the rules *)

\* Every variable of the backend keeps its type: the batch stays within the
\* array, calls and packets name objects of their kind, and flags are those of
\* watchers.
THEOREM TypeCorrect ==
  ASSUME Careful
  PROVE  Spec => []IocpTypeOK
<1>1. PInv /\ RInv => IocpTypeOK
  <2> SUFFICES ASSUME PInv, RInv PROVE IocpTypeOK
    OBVIOUS
  <2>1. /\ queue \in Seq(Packets) /\ batch \in Seq(Packets) /\ Len(batch) <= MaxEvents
        /\ cur \in Packets /\ ran \in BOOLEAN
    BY DEF PInv, PortOK
  <2>2. lpc \in {"out", "dispatch", "examined", "callback", "rearm", "issue"}
    BY DEF PInv, PortOK, Handling
  <2>3. call \in [Threads ->
                    [at : {"idle", "arm", "unregister", "mark", "cancel", "done", "delete",
                           "join", "destroy", "flush", "post", "drain", "drained"},
                     obj : Watchers \cup Timers \cup {Nobody},
                     next : {"idle", "cleanup", "free", "destroy"}]]
    BY DEF PInv, CallsOK, Idle, WatcherCalls, TimerCalls
  <2>4. \A S \in {alive, active, wants, ptr, datum, pending, stopping, avail, ended,
                  raced} :
          S \subseteq Watchers
    BY DEF RInv, ReadTypes
  <2>5. reads \in [Watchers -> Nat] /\ writes \in [Watchers -> 0..1]
    BY DEF RInv, ReadTypes
  <2>6. \A S \in {talive, tactive, tdata, started, destroyed, armed, firing} :
          S \subseteq Timers
    BY DEF PInv, TimersOK
  <2> QED
    BY <2>1, <2>2, <2>3, <2>4, <2>5, <2>6 DEF IocpTypeOK
<1> QED
  BY <1>1, RAlways, PTL

\* FreedOnlyByRace: a packet, kernel read, callback or pool callback that is
\* still to come points at memory that pd_watcher_destroy and
\* pd_timer_destroy have not freed, unless a teardown has found
\* pending_operation clear while a read of the watcher was handled, be it the
\* callback's own pd_watcher_destroy, or has cancelled before a re-arm issued
\* its read.
THEOREM MemoryIsLive ==
  ASSUME Careful
  PROVE  Spec => []FreedOnlyByRace
<1>1. PInv /\ RInv => FreedOnlyByRace
  <2> SUFFICES ASSUME PInv, RInv PROVE MemoryLive(Watchers \ raced)
    BY DEF FreedOnlyByRace
  <2>0. \A w \in Watchers \ raced : WatcherOK(w)
    BY DEF RInv, Fine
  <2>1. Outstanding = {Flow[i] : i \in DOMAIN Flow} \cup {cur}
    BY OutstandingFlow DEF PInv, PortOK
  <2>2. ASSUME NEW p \in Outstanding, p.kind = "read", p.obj \in Watchers \ raced
        PROVE  p.obj \in alive
    <3>1. PICK w \in Watchers \ raced : p.obj = w
      BY <2>2
    <3>2. ReadPacket(w, p)
      BY <2>2, <3>1 DEF ReadPacket
    <3>3. ReadIn(Flow, w) \/ ReadPacket(w, cur)
      BY <2>1, <3>2 DEF ReadIn
    <3> QED
      BY <2>0, <3>1, <3>3 DEF WatcherOK, Backed
  <2>3. \A p \in Outstanding : p.kind = "timer" => p.obj \in talive \cap tdata
    BY <2>1 DEF PInv, TimersOK
  <2>4. ASSUME NEW w \in Watchers \ raced PROVE InPort("write", w) => w \in alive
    BY <2>0, WriteInPort DEF PInv, WatcherOK, WritesOver, Allocated
  <2>5. ASSUME NEW w \in Watchers \ raced, reads[w] > 0 PROVE w \in alive \cap datum
    <3>1. reads[w] # 0
      BY <2>5
    <3> QED
      BY <2>0, <3>1 DEF WatcherOK, Backed, Allocated
  <2>6. lpc \in {"examined", "issue"} /\ cur.obj \in Watchers \ raced => cur.obj \in datum
    BY <2>0 DEF WatcherOK, Backed, Allocated, AtWork
  <2>7. firing \subseteq talive \cap tdata
    BY DEF PInv, TimersOK
  <2> QED
    BY <2>2, <2>3, <2>4, <2>5, <2>6, <2>7 DEF MemoryLive
<1> QED
  BY <1>1, RAlways, PTL

\* DrainIsBarrier: a thread that iocp_drain_sync has let pass finds no packet,
\* no read and no pool callback of the object it tears down, unless its
\* CancelIoEx fell between the two steps of a re-arm.
THEOREM BarrierHolds ==
  ASSUME Careful
  PROVE  Spec => []DrainIsBarrier
<1>1. PInv /\ RInv => DrainIsBarrier
  <2> SUFFICES ASSUME PInv, RInv, NEW th \in Threads, call[th].at = "drained",
                      call[th].obj \notin raced
               PROVE  /\ \A p \in Outstanding : p.kind # "sync" => p.obj # call[th].obj
                      /\ call[th].obj \notin firing
                      /\ call[th].obj \in Watchers => reads[call[th].obj] = 0
    BY DEF DrainIsBarrier
  <2>1. Outstanding = {Flow[i] : i \in DOMAIN Flow} \cup {cur}
    BY OutstandingFlow DEF PInv, PortOK
  <2>2. call[th].obj \in Watchers \cup Timers
    BY WaiterObject DEF PInv
  <2>3. \A p \in Outstanding : p.kind # "sync" => p.obj # call[th].obj
    <3>1. CASE call[th].obj \in Timers
      BY <2>1, <3>1 DEF PInv, Barrier
    <3>2. CASE call[th].obj \in Watchers
      <4>1. Barrier({call[th].obj})
        BY <3>2 DEF RInv
      <4> QED
        BY <2>1, <4>1 DEF Barrier
    <3> QED
      BY <2>2, <3>1, <3>2
  <2>4. call[th].obj \notin firing
    BY <2>2, Apart DEF PInv, TimersOK
  <2>5. ASSUME NEW w \in Watchers, call[th].obj = w PROVE reads[w] = 0
    <3>1. ProperCalls(call)
      BY DEF PInv, CallsOK, ProperCalls, Calls
    <3>2. Stage(call, w) = "wait"
      BY <2>5, <3>1, CallOn
    <3> QED
      BY <2>5, <3>2 DEF RInv, Fine, WatcherOK, Freeing
  <2> QED
    BY <2>3, <2>4, <2>5
<1> QED
  BY <1>1, RAlways, PTL

\* OneReadPerOverlapped: from the issue of a read to the dispatch of its
\* packet the OVERLAPPED of the watcher is not used for another, unless
\* a pd_watcher_update, another thread's or the callback's, falls between a READ
\* and its re-arm.
THEOREM OverlappedIsOwned ==
  ASSUME Careful
  PROVE  Spec => []OneReadPerOverlapped
<1>1. PInv /\ RInv => OneReadPerOverlapped
  <2> DEFINE mine(w, s) == {i \in DOMAIN s : ReadPacket(w, s[i])}
  <2> SUFFICES ASSUME PInv, RInv, NEW w \in Watchers \ raced
               PROVE  reads[w] + Cardinality(mine(w, queue)) + Cardinality(mine(w, batch))
                        <= 1
    BY DEF OneReadPerOverlapped
  <2> DEFINE b == Len(batch)
             q == Len(queue)
             Q == mine(w, queue)
             B == mine(w, batch)
  <2>1. queue \in Seq(Packets) /\ batch \in Seq(Packets)
    BY DEF PInv, PortOK
  <2>2. b \in Nat /\ q \in Nat /\ DOMAIN batch = 1..b /\ DOMAIN queue = 1..q
    BY <2>1
  <2>3. /\ DOMAIN Flow = 1..b + q
        /\ \A i \in 1..b + q : Flow[i] = IF i <= b THEN batch[i] ELSE queue[i - b]
    BY <2>1, FlowType, ConcatProperties DEF Flow
  <2>4. OneReadIn(Flow, w) /\ (reads[w] # 0 => ~ReadIn(Flow, w)) /\ reads[w] \in 0..1
    BY DEF RInv, Fine, WatcherOK, SingleRead
  <2>5. Q \subseteq 1..q /\ B \subseteq 1..b
        /\ (\A i \in Q : ReadPacket(w, queue[i])) /\ (\A i \in B : ReadPacket(w, batch[i]))
    BY <2>2
  <2> HIDE DEF b, q, Q, B, mine
  <2>6. \A i \in B : i \in DOMAIN Flow /\ ReadPacket(w, Flow[i]) /\ i <= b
    <3>1. \A i \in 1..b : i \in 1..b + q /\ i <= b
      BY <2>2
    <3> QED
      BY <2>3, <2>5, <3>1
  <2>7. \A i \in Q : i \in Nat /\ i + b \in DOMAIN Flow /\ ReadPacket(w, Flow[i + b])
                     /\ ~(i + b <= b)
    <3>1. \A i \in 1..q : /\ i \in Nat /\ i + b \in 1..b + q
                          /\ ~(i + b <= b) /\ (i + b) - b = i
      BY <2>2
    <3> QED
      BY <2>3, <2>5, <3>1
  <2>8. \A i, j \in B : i = j
    BY <2>4, <2>6 DEF OneReadIn
  <2>9. ASSUME NEW i \in Q, NEW j \in Q PROVE i = j
    <3>1. i + b = j + b
      BY <2>4, <2>7 DEF OneReadIn
    <3> QED
      BY <2>2, <2>7, <3>1
  <2>10. Q = {} \/ B = {}
    <3>1. ASSUME NEW i \in Q, NEW j \in B PROVE FALSE
      <4>1. i + b = j
        BY <2>4, <2>6, <2>7 DEF OneReadIn
      <4> QED
        BY <2>6, <2>7, <4>1
    <3> QED
      BY <3>1
  <2>11. reads[w] # 0 => Q = {} /\ B = {}
    BY <2>4, <2>6, <2>7 DEF ReadIn
  <2>12. Cardinality(Q) = 0 \/ (Cardinality(Q) = 1 /\ Q # {})
    <3>1. CASE Q = {}
      BY <3>1, FS_EmptySet
    <3>2. ASSUME NEW i \in Q PROVE Cardinality(Q) = 1
      <4>1. Q = {i}
        BY <2>9, <3>2
      <4> QED
        BY <4>1, FS_Singleton
    <3> QED
      BY <3>1, <3>2
  <2>13. Cardinality(B) = 0 \/ (Cardinality(B) = 1 /\ B # {})
    <3>1. CASE B = {}
      BY <3>1, FS_EmptySet
    <3>2. ASSUME NEW i \in B PROVE Cardinality(B) = 1
      <4>1. B = {i}
        BY <2>8, <3>2
      <4> QED
        BY <4>1, FS_Singleton
    <3> QED
      BY <3>1, <3>2
  <2>14. reads[w] + Cardinality(Q) + Cardinality(B) <= 1
    BY <2>4, <2>10, <2>11, <2>12, <2>13
  <2> QED
    BY <2>14 DEF Q, B
<1> QED
  BY <1>1, RAlways, PTL

\* PendingAccounted: when updates issue the reads they set it for,
\* pending_operation is set for a read that is in flight or being handled,
\* unless the teardown has taken it over, so a teardown that finds it set waits
\* for a packet that does come.  Races do not spoil that.
THEOREM PendingIsTrue ==
  ASSUME Careful, ReissueWorks
  PROVE  Spec => []PendingAccounted
<1>1. PInv /\ RInv => PendingAccounted
  <2> SUFFICES ASSUME PInv, RInv, NEW w \in ptr \cap pending
               PROVE  \/ w \in stopping \/ reads[w] > 0 \/ InPort("read", w)
                      \/ cur.obj = w /\ lpc \in {"examined", "issue"}
    BY DEF PendingAccounted
  <2>1. w \in Watchers /\ Fine(w)
    BY DEF RInv, ReadTypes
  <2>2. w \in stopping \/ Flying(w) \/ AtWork(w)
    BY <2>1 DEF Fine, RacedOK, WatcherOK, Accounted
  <2>3. Flying(w) => InFlight(w) \/ AtWork(w)
    BY <2>1, UnderWayOrHandled DEF PInv, RInv, ReadPacket, AtWork
  <2> QED
    BY <2>2, <2>3 DEF InFlight, AtWork
<1> QED
  BY <1>1, RAlways, PTL

\* ReadStaysArmed: outside the calls on it, an active watcher that wants READ
\* and whose stream goes on is never left without a read, when READ is not
\* switched on again while a cancelled read is on its way.  Races do not spoil
\* that.
THEOREM NeverDeadArmed ==
  ASSUME Careful, Steady
  PROVE  Spec => []ReadStaysArmed
<1>1. PInv /\ RInv => ReadStaysArmed
  <2> SUFFICES ASSUME PInv, RInv, NEW w \in (active \cap wants) \ ended,
                      \A th \in Threads : call[th].obj # w
               PROVE  w \in ptr /\ (InFlight(w) \/ ReadPacket(w, cur))
    BY DEF ReadStaysArmed
  <2>1. w \in Watchers /\ Fine(w)
    BY DEF RInv, ReadTypes
  <2>2. Stage(call, w) = "idle"
    BY NoCallOn
  <2>3. w \in ptr
    BY <2>1, <2>2 DEF Fine, RacedOK, WatcherOK, Registered
  <2>4. Flying(w) \/ AtWork(w) \/ ReadPacket(w, cur)
    BY <2>1 DEF Fine, RacedOK, WatcherOK, Wanted, Held
  <2>5. AtWork(w) => ReadPacket(w, cur)
    BY DEF AtWork, PInv, PortOK, Handling, Packet, ReadPacket
  <2>6. Flying(w) => InFlight(w) \/ ReadPacket(w, cur)
    BY <2>1, UnderWayOrHandled DEF PInv, RInv
  <2> QED
    BY <2>3, <2>4, <2>5, <2>6
<1> QED
  BY <1>1, RAlways, PTL

\* CallsActive: iocp_loop_run starts a callback only for a watcher that is
\* active or whose teardown is under way, and with an event, unless a call
\* has overtaken the handling of one of its reads.
THEOREM OnlyActiveCalled ==
  ASSUME Careful
  PROVE  Spec => CallsActive
<1> DEFINE Starts(w) ==
      lpc # "callback" /\ lpc' = "callback" /\ cur'.obj = w =>
        /\ w \in active \/ \E th \in Threads : call[th].obj = w
        /\ cur'.res # "NONE"
<1>1. ASSUME PInv, RInv, [Next]_vars PROVE [\A w \in Watchers \ raced : Starts(w)]_vars
  <2> SUFFICES ASSUME NEW w \in Watchers \ raced, lpc # "callback", lpc' = "callback", cur'.obj = w
               PROVE  /\ w \in active \/ \E th \in Threads : call[th].obj = w
                      /\ cur'.res # "NONE"
    OBVIOUS
  <2>1. WatcherOK(w) /\ ProperCalls(call)
    BY <1>1 DEF RInv, Fine, PInv, CallsOK, ProperCalls, Calls
  <2>2. w \in ptr /\ w \notin stopping => w \in active \/ \E th \in Threads : call[th].obj = w
    BY <2>1, StageCases DEF WatcherOK, Registered
  <2>3. CASE Examine
    <3>1. /\ Head(batch).obj \in ptr \ stopping
          /\ cur' = Packet("write", Head(batch).obj, "WRITE")
      BY <2>3 DEF Examine
    <3> QED
      BY <2>2, <3>1 DEF Packet
  <2>4. CASE Classify
    <3>1. /\ lpc = "examined" /\ cur' = Packet("read", cur.obj, EventOf(cur.obj, cur.res))
      BY <2>4 DEF Classify
    <3>2. cur.obj = w /\ cur'.res = EventOf(w, cur.res)
      BY <3>1 DEF Packet
    <3>3. /\ w \in ptr /\ w \in pending
          /\ w \in stopping => Stage(call, w) # "idle"
      BY <2>1, <3>1, <3>2 DEF WatcherOK, Backed, AtWork
    <3>4. EventOf(w, cur.res) # "NONE"
      BY <3>3 DEF EventOf
    <3>5. w \in stopping => \E th \in Threads : call[th].obj = w
      BY <2>1, <3>3, StageCases
    <3> QED
      BY <2>2, <3>2, <3>3, <3>4, <3>5
  <2>5. CASE DispatchTimer
    <3>1. cur'.obj = Head(batch).obj /\ Head(batch).kind = "timer"
      BY <2>5 DEF DispatchTimer, AtDispatch, Packet
    <3>2. Dispatched
      BY <1>1, <2>5, BatchShrinks DEF DispatchTimer, AtDispatch, PInv, PortOK
    <3>3. 1 \in DOMAIN Flow /\ Flow[1] = Head(batch)
      BY <3>2 DEF Dispatched
    <3>4. WellFormed(Flow[1])
      BY <1>1, <3>3 DEF PInv, PortOK
    <3> QED
      BY <3>1, <3>3, <3>4, Apart DEF WellFormed
  <2>6. CASE DispatchSync \/ BatchDone \/ Rearm \/ \E ok \in BOOLEAN : RearmIssue(ok)
    BY <2>6 DEF DispatchSync, Drop, BatchDone, Rearm, RearmIssue
  <2>7. CASE CallbackReturn
    BY <2>7 DEF CallbackReturn, WatcherCallbackReturn, TimerCallbackReturn
  <2>8. CASE LoopEnter \/ TakeBatch
    BY <2>8 DEF LoopEnter, TakeBatch
  <2>9. ASSUME NEW th \in Threads, CallStep(th) PROVE FALSE
    BY <2>9 DEF CallStep, WatcherCallStep, RegisterArm, Unregister, Mark, Cancel,
         WatcherCallDone, TimerCallStep, TimerDelete, TimerJoin, TimerMark, TimerFlush,
         TimerCallDone, PostSync
  <2>10. CASE WatcherApi \/ WatcherKernel \/ DrainRead
    BY <2>10 DEF WatcherApi, Start, Stop, Destroy, WatcherCreate, Update, WatcherKernel,
         ReadCompletes, WriteIssue, WriteCompletes, DrainRead, pvars
  <2>11. CASE TimerApi \/ TimerPool \/ UNCHANGED vars
    BY <2>11 DEF TimerApi, TimerCreate, TimerStart, TimerStop, TimerDestroy, TimerPool,
         TimerFire, TimerPost, pvars, vars
  <2> QED
    BY <1>1, <2>3, <2>4, <2>5, <2>6, <2>7, <2>8, <2>9, <2>10, <2>11
       DEF Next, Dispatch, WatcherDispatch
<1> QED
  BY <1>1, RAlways, PTL DEF Spec, CallsActive

=============================================================================
