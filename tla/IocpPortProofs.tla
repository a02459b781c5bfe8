--------------------------- MODULE IocpPortProofs ---------------------------
(***************************************************************************)
(* Proofs about Iocp, first part: the completion port, the calls of the    *)
(* threads, the drain barrier and the timers, for any number of threads    *)
(* and objects and queues and batches of any length.  They need only that  *)
(* a barrier is answered in time and that the loop thread does not wait    *)
(* for itself, whatever else the application does with its watchers.  The  *)
(* watchers are in IocpProofs.                                             *)
(***************************************************************************)
EXTENDS Iocp, SequenceTheorems, TLAPS

\* What the barrier relies on
Answered == Liberties \cap {"timeout", "selfDestroy"} = {}

\* What timers rely on besides: the DeleteTimerQueueTimer of
\* iocp_timer_destroy, whose result nobody looks at, does not fail
Flushed == "destroy" \notin TimerFaults

-----------------------------------------------------------------------------
(* The port, the calls and the timers *)

\* The packets on their way to the loop thread, in the order of dispatch
Flow == batch \o queue

\* A packet names an object of its kind, and a read's how it ended
WellFormed(p) ==
  \/ p.kind = "sync" /\ p.obj \in Workers
  \/ p.kind = "timer" /\ p.obj \in Timers
  \/ p.kind = "write" /\ p.obj \in Watchers /\ p.res = "none"
  \/ p.kind = "read" /\ p.obj \in Watchers
     /\ p.res \in {"data", "eof", "error", "cancelled"}

\* What the loop thread is doing, and with which packet
Handling ==
  \/ lpc = "out" /\ cur = NoPacket /\ batch = <<>>
  \/ lpc = "dispatch" /\ cur = NoPacket
  \/ /\ lpc = "examined" /\ cur.kind = "read" /\ cur.obj \in Watchers
     /\ cur.res \in {"data", "eof", "error", "cancelled"}
  \/ /\ lpc = "callback" /\ cur.kind \in {"read", "write"} /\ cur.obj \in Watchers
     /\ cur.res \in {"READ", "WRITE", "HANGUP", "ERROR", "NONE"}
     /\ cur.res = "READ" => cur.kind = "read"
  \/ lpc = "callback" /\ cur = Packet("timer", cur.obj, "READ") /\ cur.obj \in Timers
  \/ lpc \in {"rearm", "issue"} /\ cur = Packet("read", cur.obj, "READ")
     /\ cur.obj \in Watchers

PortOK ==
  /\ queue \in Seq(Packets) /\ batch \in Seq(Packets) /\ Len(batch) <= MaxEvents
  /\ \A i \in DOMAIN Flow : WellFormed(Flow[i])
  /\ cur \in Packets
  /\ ran \in BOOLEAN /\ (lpc # "out" => ran = TRUE)
  /\ Handling
  /\ call[LoopThread] # Idle => lpc \in {"out", "callback"}

\* The calls a thread can be in the middle of, on watchers and on timers
WatcherCalls ==
  [at : {"arm", "unregister", "mark", "cancel", "done", "post", "drain", "drained"},
   obj : Watchers, next : {"idle", "cleanup", "free"}]

TimerCalls ==
  [at : {"delete", "join"}, obj : Timers, next : {"idle", "destroy"}]
    \cup [at : {"destroy", "flush", "post", "drain", "drained"}, obj : Timers,
          next : {"destroy"}]

\* An object is in one call at a time, and the loop thread in none that waits
\* for itself
CallsOK ==
  /\ call \in [Threads -> {Idle} \cup WatcherCalls \cup TimerCalls]
  /\ \A th, u \in Threads : call[th].obj = call[u].obj => th = u \/ call[th] = Idle
  /\ call[LoopThread].at \notin {"post", "drain", "drained"}
  /\ call[LoopThread].next # "destroy"

\* A barrier's packet belongs to a thread that waits for it, and to one wait
SyncOK ==
  \A i \in DOMAIN Flow :
    Flow[i].kind = "sync" =>
      /\ call[Flow[i].obj].at = "drain"
      /\ \A j \in DOMAIN Flow : j > i => Flow[j].obj # Flow[i].obj

\* Of an object of S that is torn down, no packet comes after the barrier's,
\* and none is left when the barrier was passed.
Barrier(S) ==
  /\ \A i \in DOMAIN Flow, j \in DOMAIN Flow :
       /\ Flow[i].kind = "sync"
       /\ i < j
       /\ Flow[j].obj \in S
       => Flow[j].obj # call[Flow[i].obj].obj
  /\ \A th \in Threads :
       call[th].at = "drained" /\ call[th].obj \in S =>
         /\ cur.obj # call[th].obj
         /\ \A i \in DOMAIN Flow : Flow[i].obj # call[th].obj

\* A timer that is armed, or whose pool callback runs, is started, and one
\* whose destruction is past the flush is not; one whose pool callback a stop
\* waits for is no longer armed.  Packets and calls name allocated timers.
TimersOK ==
  /\ talive \subseteq Timers /\ tdata = talive
  /\ started \cup destroyed \cup tactive \subseteq talive
  /\ armed \cup firing \subseteq started
  /\ \A th \in Threads :
       call[th].obj \in Timers =>
         /\ call[th].obj \in talive
         /\ call[th].at = "join" => call[th].obj \notin armed
         /\ call[th].at \in {"post", "drain", "drained"} => call[th].obj \notin started
  /\ \A i \in DOMAIN Flow : Flow[i].kind = "timer" => Flow[i].obj \in talive
  /\ cur.kind = "timer" => cur.obj \in talive

PInv == PortOK /\ CallsOK /\ SyncOK /\ TimersOK /\ Barrier(Timers)

-----------------------------------------------------------------------------
(* How a step changes the flow of packets *)

\* Nothing is posted and nothing dispatched
Same == Flow' = Flow

\* A packet is posted
Posted(p) ==
  /\ p \in Packets
  /\ Len(Flow') = Len(Flow) + 1
  /\ \A i \in DOMAIN Flow : Flow'[i] = Flow[i]
  /\ Flow'[Len(Flow) + 1] = p

\* The first packet is dispatched
Dispatched ==
  /\ lpc = "dispatch" /\ batch # <<>>
  /\ 1 \in DOMAIN Flow
  /\ Flow[1] = Head(batch)
  /\ Len(Flow') = Len(Flow) - 1
  /\ \A i \in DOMAIN Flow' : Flow'[i] = Flow[i + 1]

\* The flow is a sequence of packets
LEMMA FlowType ==
  ASSUME queue \in Seq(Packets), batch \in Seq(Packets)
  PROVE  /\ Flow \in Seq(Packets)
         /\ Len(Flow) \in Nat
         /\ DOMAIN Flow = 1..Len(Flow)
         /\ \A i \in DOMAIN Flow : Flow[i] \in Packets
BY ConcatProperties DEF Flow

\* The places of the flow after a post and after a dispatch
LEMMA PostedAt ==
  ASSUME queue \in Seq(Packets), batch \in Seq(Packets), NEW p, Posted(p)
  PROVE  /\ Len(Flow) \in Nat /\ DOMAIN Flow = 1..Len(Flow)
         /\ DOMAIN Flow' = 1..Len(Flow) + 1
         /\ \A i \in 1..Len(Flow) : Flow'[i] = Flow[i]
         /\ Flow'[Len(Flow) + 1] = p
<1>1. DOMAIN Flow' = 1..Len(Flow')
  BY DEF Flow
<1> QED
  BY <1>1, FlowType DEF Posted

LEMMA DispatchedAt ==
  ASSUME queue \in Seq(Packets), batch \in Seq(Packets), Dispatched
  PROVE  /\ Len(Flow) \in Nat \ {0} /\ DOMAIN Flow = 1..Len(Flow)
         /\ DOMAIN Flow' = 1..Len(Flow) - 1
         /\ Flow[1] = Head(batch)
         /\ \A i \in 1..Len(Flow) - 1 : Flow'[i] = Flow[i + 1]
<1>1. DOMAIN Flow' = 1..Len(Flow')
  BY DEF Flow
<1>2. Len(Flow) \in Nat /\ DOMAIN Flow = 1..Len(Flow)
  BY FlowType
<1>3. Len(Flow) # 0
  BY <1>2 DEF Dispatched
<1> QED
  BY <1>1, <1>2, <1>3 DEF Dispatched

\* A packet that is queued goes to the end of the flow
LEMMA QueueGrows ==
  ASSUME queue \in Seq(Packets), batch \in Seq(Packets), NEW p \in Packets,
         queue' = Append(queue, p), batch' = batch
  PROVE  Posted(p)
<1>1. Flow \in Seq(Packets) /\ DOMAIN Flow = 1..Len(Flow)
  BY FlowType
<1>2. Flow' = batch \o (queue \o <<p>>)
  BY AppendIsConcat DEF Flow
<1>3. <<p>> \in Seq(Packets)
  OBVIOUS
<1>4. Flow' = (batch \o queue) \o <<p>>
  BY <1>2, <1>3, ConcatAssociative
<1>5. Flow' = Append(Flow, p)
  BY <1>1, <1>4, AppendIsConcat DEF Flow
<1> QED
  BY <1>1, <1>5, AppendProperties DEF Posted

\* Taking a batch moves packets from the queue and leaves the flow as it is
LEMMA BatchTaken ==
  ASSUME queue \in Seq(Packets), batch = <<>>, TakeBatch
  PROVE  /\ Same
         /\ queue' \in Seq(Packets) /\ batch' \in Seq(Packets)
         /\ Len(batch') <= MaxEvents
<1> DEFINE n == IF Len(queue) < MaxEvents THEN Len(queue) ELSE MaxEvents
<1>1. n \in 0..Len(queue) /\ n <= MaxEvents /\ Len(queue) \in Nat
  BY PortAssumption
<1>2. batch' = SubSeq(queue, 1, n) /\ queue' = SubSeq(queue, n + 1, Len(queue))
  BY DEF TakeBatch
<1> HIDE DEF n
<1>3. batch' \o queue' = SubSeq(queue, 1, Len(queue))
  <2>1. 1 \in 1..Len(queue) + 1 /\ n \in 1 - 1..Len(queue) /\ Len(queue) \in n..Len(queue)
    BY <1>1
  <2> QED
    BY <1>2, <2>1, ConcatAdjacentSubSeq
<1>4. SubSeq(queue, 1, Len(queue)) = queue
  BY SubSeqFull
<1>5. Flow = queue
  BY ConcatEmptySeq DEF Flow
<1>6. \A i \in 1..Len(queue) : queue[i] \in Packets
  BY ElementOfSeq
<1>7. batch' \in Seq(Packets) /\ Len(batch') = n
  <2>1. \A i \in 1..n : queue[i] \in Packets
    BY <1>1, <1>6
  <2>2. /\ SubSeq(queue, 1, n) \in Seq(Packets)
        /\ Len(SubSeq(queue, 1, n)) = IF 1 <= n THEN n - 1 + 1 ELSE 0
    BY <1>1, <2>1, SubSeqProperties
  <2> QED
    BY <1>1, <1>2, <2>2
<1>8. queue' \in Seq(Packets)
  <2>1. \A i \in n + 1..Len(queue) : queue[i] \in Packets
    BY <1>1, <1>6
  <2> QED
    BY <1>1, <1>2, <2>1, SubSeqProperties
<1> QED
  BY <1>1, <1>3, <1>4, <1>5, <1>7, <1>8 DEF Flow, Same

\* The head of the batch is the head of the flow
LEMMA BatchShrinks ==
  ASSUME queue \in Seq(Packets), batch \in Seq(Packets), Len(batch) <= MaxEvents,
         lpc = "dispatch", batch # <<>>, batch' = Tail(batch), queue' = queue
  PROVE  Dispatched /\ batch' \in Seq(Packets) /\ Len(batch') <= MaxEvents
<1>1. /\ batch' \in Seq(Packets)
      /\ Len(batch') = Len(batch) - 1
      /\ \A i \in 1..Len(batch') : batch'[i] = batch[i + 1]
  BY HeadTailProperties
<1>2. Len(batch) \in Nat \ {0} /\ Len(queue) \in Nat /\ MaxEvents \in Nat
  BY PortAssumption
<1>3. /\ Len(Flow) = Len(batch) + Len(queue)
      /\ \A i \in 1..Len(batch) + Len(queue) :
           Flow[i] = IF i <= Len(batch) THEN batch[i] ELSE queue[i - Len(batch)]
  BY ConcatProperties DEF Flow
<1>4. /\ Len(Flow') = Len(batch') + Len(queue)
      /\ \A i \in 1..Len(batch') + Len(queue) :
           Flow'[i] = IF i <= Len(batch') THEN batch'[i] ELSE queue[i - Len(batch')]
  BY <1>1, ConcatProperties DEF Flow
<1>5. DOMAIN Flow = 1..Len(Flow) /\ DOMAIN Flow' = 1..Len(Flow')
  BY <1>1, FlowType, ConcatProperties DEF Flow
<1>6. ASSUME NEW i \in 1..Len(Flow') PROVE Flow'[i] = Flow[i + 1]
  BY <1>1, <1>2, <1>3, <1>4
<1>7. Flow[1] = Head(batch)
  BY <1>2, <1>3
<1> QED
  BY <1>1, <1>2, <1>3, <1>4, <1>5, <1>6, <1>7 DEF Dispatched


-----------------------------------------------------------------------------
(* The barrier *)

\* Objects and threads are apart
LEMMA Apart ==
  /\ LoopThread \in Threads /\ Workers \subseteq Threads
  /\ Watchers \cap Threads = {} /\ Timers \cap Threads = {} /\ Watchers \cap Timers = {}
  /\ Nobody \notin Watchers /\ Nobody \notin Timers /\ Nobody \notin Threads
BY PortAssumption, ReadAssumption, TimerAssumption, ObjectsApart DEF Threads

\* What a step must leave alone for the barrier: threads that wait go on
\* waiting, no thread is let pass, and the loop thread takes up no packet
WaitersKept ==
  /\ \A th \in Threads : /\ call[th].at = "drain" => call'[th] = call[th]
                         /\ call'[th].at = "drained" => call'[th] = call[th]
  /\ cur'.obj \in {cur.obj, Nobody}

\* The object of a call that waits or has waited is not Nobody
LEMMA WaiterObject ==
  ASSUME CallsOK, NEW th \in Threads, call[th].at \in {"post", "drain", "drained"}
  PROVE  call[th].obj \in Watchers \cup Timers /\ th \in Workers
<1>1. call[th] \in {Idle} \cup WatcherCalls \cup TimerCalls
  BY DEF CallsOK
<1>2. call[th] # Idle
  BY DEF Idle
<1> QED
  BY <1>1, <1>2, Apart DEF CallsOK, WatcherCalls, TimerCalls, Threads

\* A step that posts and dispatches nothing
LEMMA BarrierSame ==
  ASSUME NEW S, PortOK, CallsOK, SyncOK, Barrier(S), Same, WaitersKept
  PROVE  SyncOK' /\ Barrier(S)'
<1> USE DEF Same, WaitersKept
<1>1. \A i \in DOMAIN Flow : Flow[i].kind = "sync" => Flow[i].obj \in Threads
  BY Apart DEF PortOK, WellFormed
<1>2. \A i \in DOMAIN Flow : Flow[i].kind = "sync" => call'[Flow[i].obj] = call[Flow[i].obj]
  BY <1>1 DEF SyncOK
<1>3. SyncOK'
  BY <1>2 DEF SyncOK
<1>4. ASSUME NEW th \in Threads, call'[th].at = "drained", call'[th].obj \in S
      PROVE  /\ cur'.obj # call'[th].obj
             /\ \A i \in DOMAIN Flow : Flow[i].obj # call'[th].obj
  <2>1. call'[th] = call[th]
    BY <1>4
  <2>2. call[th].obj # Nobody
    BY <1>4, <2>1, WaiterObject, Apart
  <2> QED
    BY <1>4, <2>1, <2>2 DEF Barrier
<1>5. \A i \in DOMAIN Flow, j \in DOMAIN Flow :
        Flow[i].kind = "sync" /\ i < j /\ Flow[j].obj \in S
        => Flow[j].obj # call'[Flow[i].obj].obj
  BY <1>2 DEF Barrier
<1> QED
  BY <1>3, <1>4, <1>5 DEF Barrier

\* A step that posts a packet, not of an object that is being waited for
LEMMA BarrierPosted ==
  ASSUME NEW S, PortOK, CallsOK, SyncOK, Barrier(S), NEW p, Posted(p), WellFormed(p),
         WaitersKept, p.kind # "sync",
         \A th \in Threads :
           call[th].at \in {"drain", "drained"} /\ call[th].obj \in S => p.obj # call[th].obj
  PROVE  SyncOK' /\ Barrier(S)'
<1> DEFINE n == Len(Flow)
<1>0. /\ n \in Nat /\ DOMAIN Flow = 1..n /\ DOMAIN Flow' = 1..n + 1
      /\ \A i \in 1..n : Flow'[i] = Flow[i]
      /\ Flow'[n + 1] = p
  BY PostedAt DEF PortOK
<1> HIDE DEF n
<1>1. \A i \in 1..n : Flow[i].kind = "sync" => Flow[i].obj \in Threads
  BY <1>0, Apart DEF PortOK, WellFormed
<1>2. \A i \in 1..n : Flow[i].kind = "sync" =>
        call[Flow[i].obj].at = "drain" /\ call'[Flow[i].obj] = call[Flow[i].obj]
  BY <1>0, <1>1 DEF SyncOK, WaitersKept
<1>3. p.obj \notin Threads
  BY Apart DEF WellFormed
<1>4. SyncOK'
  <2>1. ASSUME NEW i \in 1..n + 1, Flow'[i].kind = "sync"
        PROVE  /\ call'[Flow'[i].obj].at = "drain"
               /\ \A j \in 1..n + 1 : j > i => Flow'[j].obj # Flow'[i].obj
    <3>1. i \in 1..n
      BY <1>0, <2>1
    <3>2. Flow'[i] = Flow[i] /\ Flow[i].obj \in Threads
      BY <1>0, <1>1, <2>1, <3>1
    <3>3. call'[Flow[i].obj].at = "drain"
      BY <1>2, <2>1, <3>1, <3>2
    <3>4. ASSUME NEW j \in 1..n + 1, j > i PROVE Flow'[j].obj # Flow[i].obj
      <4>1. CASE j \in 1..n
        BY <1>0, <2>1, <3>1, <3>2, <3>4, <4>1 DEF SyncOK
      <4>2. CASE j = n + 1
        BY <1>0, <1>3, <3>2, <4>2
      <4> QED
        BY <1>0, <4>1, <4>2
    <3> QED
      BY <3>2, <3>3, <3>4
  <2> QED
    BY <1>0, <2>1 DEF SyncOK
<1>5. ASSUME NEW th \in Threads, call'[th].at = "drained", call'[th].obj \in S
      PROVE  /\ cur'.obj # call'[th].obj
             /\ \A i \in 1..n + 1 : Flow'[i].obj # call'[th].obj
  <2>1. call'[th] = call[th] /\ call[th].at = "drained"
    BY <1>5 DEF WaitersKept
  <2>2. call[th].obj # Nobody
    BY <2>1, WaiterObject, Apart
  <2>3. p.obj # call[th].obj
    BY <1>5, <2>1
  <2>4. cur.obj # call[th].obj /\ \A i \in 1..n : Flow[i].obj # call[th].obj
    BY <1>0, <1>5, <2>1 DEF Barrier
  <2>5. \A i \in 1..n + 1 : Flow'[i].obj # call[th].obj
    BY <1>0, <2>3, <2>4
  <2> QED
    BY <2>1, <2>2, <2>4, <2>5 DEF WaitersKept
<1>6. ASSUME NEW i \in 1..n + 1, NEW j \in 1..n + 1, Flow'[i].kind = "sync", i < j,
             Flow'[j].obj \in S
      PROVE  Flow'[j].obj # call'[Flow'[i].obj].obj
  <2>1. i \in 1..n
    BY <1>0, <1>6
  <2>2. Flow'[i] = Flow[i] /\ Flow[i].obj \in Threads /\ Flow[i].kind = "sync"
    BY <1>0, <1>1, <1>6, <2>1
  <2>3. call[Flow[i].obj].at = "drain" /\ call'[Flow[i].obj] = call[Flow[i].obj]
    BY <1>2, <2>1, <2>2
  <2>4. CASE j \in 1..n
    <3>1. Flow'[j] = Flow[j]
      BY <1>0, <2>4
    <3> QED
      BY <1>0, <1>6, <2>1, <2>2, <2>3, <2>4, <3>1 DEF Barrier
  <2>5. CASE j = n + 1
    BY <1>0, <1>6, <2>2, <2>3, <2>5
  <2> QED
    BY <1>0, <2>4, <2>5
<1> QED
  BY <1>0, <1>4, <1>5, <1>6 DEF Barrier


\* The post of the barrier's own packet, after the object was silenced
LEMMA BarrierStarted ==
  ASSUME NEW S, S \cap Threads = {}, PortOK, CallsOK, SyncOK, Barrier(S),
         NEW th \in Threads, PostSync(th)
  PROVE  SyncOK' /\ Barrier(S)'
<1> DEFINE n == Len(Flow)
           p == Packet("sync", th, "none")
<1>0. /\ n \in Nat /\ DOMAIN Flow = 1..n /\ DOMAIN Flow' = 1..n + 1
      /\ \A i \in 1..n : Flow'[i] = Flow[i]
      /\ Flow'[n + 1] = p
  <2>1. p \in Packets
    BY DEF Packet, Packets
  <2>2. Posted(p)
    BY <2>1, QueueGrows DEF PortOK, PostSync
  <2> QED
    BY <2>2, PostedAt DEF PortOK
<1>1. p.kind = "sync" /\ p.obj = th
  BY DEF Packet
<1> HIDE DEF n, p
<1>2. /\ call[th].at = "post" /\ call'[th].at = "drain" /\ call'[th].obj = call[th].obj
      /\ \A u \in Threads \ {th} : call'[u] = call[u]
      /\ cur' = cur
  <2>1. call[th] \in {Idle} \cup WatcherCalls \cup TimerCalls
    BY DEF CallsOK
  <2> QED
    BY <2>1 DEF PostSync, GoTo, CallsOK, Idle, WatcherCalls, TimerCalls
<1>3. \A i \in 1..n : Flow[i].kind = "sync" =>
        /\ Flow[i].obj \in Threads \ {th}
        /\ call[Flow[i].obj].at = "drain" /\ call'[Flow[i].obj] = call[Flow[i].obj]
  <2>1. \A i \in 1..n : Flow[i].kind = "sync" => Flow[i].obj \in Threads
    BY <1>0, Apart DEF PortOK, WellFormed
  <2>2. \A i \in 1..n : Flow[i].kind = "sync" => call[Flow[i].obj].at = "drain"
    BY <1>0 DEF SyncOK
  <2> QED
    BY <1>2, <2>1, <2>2
<1>4. SyncOK'
  <2>1. ASSUME NEW i \in 1..n + 1, Flow'[i].kind = "sync"
        PROVE  /\ call'[Flow'[i].obj].at = "drain"
               /\ \A j \in 1..n + 1 : j > i => Flow'[j].obj # Flow'[i].obj
    <3>1. CASE i = n + 1
      BY <1>0, <1>1, <1>2, <3>1
    <3>2. CASE i \in 1..n
      <4>1. Flow'[i] = Flow[i] /\ Flow[i].kind = "sync"
        BY <1>0, <2>1, <3>2
      <4>2. ASSUME NEW j \in 1..n + 1, j > i PROVE Flow'[j].obj # Flow[i].obj
        <5>1. CASE j = n + 1
          BY <1>0, <1>1, <1>3, <3>2, <4>1, <5>1
        <5>2. CASE j \in 1..n
          BY <1>0, <3>2, <4>1, <4>2, <5>2 DEF SyncOK
        <5> QED
          BY <1>0, <5>1, <5>2
      <4> QED
        BY <1>3, <3>2, <4>1, <4>2
    <3> QED
      BY <1>0, <3>1, <3>2
  <2> QED
    BY <1>0, <2>1 DEF SyncOK
<1>5. ASSUME NEW u \in Threads, call'[u].at = "drained", call'[u].obj \in S
      PROVE  /\ cur'.obj # call'[u].obj
             /\ \A i \in 1..n + 1 : Flow'[i].obj # call'[u].obj
  <2>1. call'[u] = call[u]
    BY <1>2, <1>5
  <2>2. cur.obj # call[u].obj /\ \A i \in 1..n : Flow[i].obj # call[u].obj
    BY <1>0, <1>5, <2>1 DEF Barrier
  <2>3. call[u].obj # th
    BY <1>5, <2>1
  <2> QED
    BY <1>0, <1>1, <1>2, <2>1, <2>2, <2>3
<1>6. ASSUME NEW i \in 1..n + 1, NEW j \in 1..n + 1, Flow'[i].kind = "sync", i < j,
             Flow'[j].obj \in S
      PROVE  Flow'[j].obj # call'[Flow'[i].obj].obj
  <2>1. i \in 1..n
    BY <1>0, <1>6
  <2>2. j \in 1..n
    BY <1>0, <1>1, <1>6
  <2>3. Flow'[i] = Flow[i] /\ Flow'[j] = Flow[j]
    BY <1>0, <2>1, <2>2
  <2>4. Flow[j].obj # call[Flow[i].obj].obj
    BY <1>0, <1>6, <2>1, <2>2, <2>3 DEF Barrier
  <2> QED
    BY <1>3, <1>6, <2>1, <2>3, <2>4
<1> QED
  BY <1>0, <1>4, <1>5, <1>6 DEF Barrier

\* The dispatch of a packet of an object: no thread that waits has passed
LEMMA BarrierDispatched ==
  ASSUME NEW S, PortOK, CallsOK, SyncOK, Barrier(S), Dispatched, call' = call,
         cur'.obj \in {cur.obj, Nobody, Head(batch).obj}
  PROVE  SyncOK' /\ Barrier(S)'
<1> DEFINE n == Len(Flow)
<1>0. /\ n \in Nat \ {0} /\ DOMAIN Flow = 1..n /\ DOMAIN Flow' = 1..n - 1
      /\ Flow[1] = Head(batch)
      /\ \A i \in 1..n - 1 : Flow'[i] = Flow[i + 1]
  BY DispatchedAt DEF PortOK
<1> HIDE DEF n
<1>1. \A i \in 1..n - 1 : i + 1 \in 1..n
  BY <1>0
<1>2. SyncOK'
  <2>1. ASSUME NEW i \in 1..n - 1, Flow'[i].kind = "sync"
        PROVE  /\ call[Flow'[i].obj].at = "drain"
               /\ \A j \in 1..n - 1 : j > i => Flow'[j].obj # Flow'[i].obj
    <3>1. /\ i + 1 \in 1..n /\ Flow'[i] = Flow[i + 1]
          /\ \A j \in 1..n - 1 : j > i => j + 1 \in 1..n /\ j + 1 > i + 1
      BY <1>0, <1>1
    <3>2. /\ call[Flow[i + 1].obj].at = "drain"
          /\ \A j \in 1..n : j > i + 1 => Flow[j].obj # Flow[i + 1].obj
      BY <1>0, <2>1, <3>1 DEF SyncOK
    <3> QED
      BY <1>0, <3>1, <3>2
  <2> QED
    BY <1>0, <2>1 DEF SyncOK
<1>3. ASSUME NEW th \in Threads, call[th].at = "drained", call[th].obj \in S
      PROVE  /\ cur'.obj # call[th].obj
             /\ \A i \in 1..n - 1 : Flow'[i].obj # call[th].obj
  <2>1. cur.obj # call[th].obj /\ \A i \in 1..n : Flow[i].obj # call[th].obj
    BY <1>0, <1>3 DEF Barrier
  <2>2. call[th].obj # Nobody
    BY <1>3, WaiterObject, Apart
  <2>3. Flow[1].obj # call[th].obj
    BY <1>0, <2>1
  <2> QED
    BY <1>0, <1>1, <2>1, <2>2, <2>3
<1>4. ASSUME NEW i \in 1..n - 1, NEW j \in 1..n - 1, Flow'[i].kind = "sync", i < j,
             Flow'[j].obj \in S
      PROVE  Flow'[j].obj # call[Flow'[i].obj].obj
  <2>1. Flow'[i] = Flow[i + 1] /\ Flow'[j] = Flow[j + 1] /\ i + 1 < j + 1
    BY <1>0, <1>4
  <2> QED
    BY <1>0, <1>1, <1>4, <2>1 DEF Barrier
<1> QED
  BY <1>0, <1>2, <1>3, <1>4 DEF Barrier

\* The dispatch of the barrier's packet: everything before it was dispatched,
\* and nothing of the object comes after it
LEMMA BarrierPassed ==
  ASSUME NEW S, S \cap Threads = {}, Nobody \notin S,
         PortOK, CallsOK, SyncOK, Barrier(S), DispatchSync
  PROVE  SyncOK' /\ Barrier(S)'
<1> DEFINE n == Len(Flow)
           th == Head(batch).obj
<1>0. /\ n \in Nat \ {0} /\ DOMAIN Flow = 1..n /\ DOMAIN Flow' = 1..n - 1
      /\ Flow[1] = Head(batch)
      /\ \A i \in 1..n - 1 : Flow'[i] = Flow[i + 1]
  <2>1. Dispatched
    BY BatchShrinks DEF PortOK, DispatchSync, AtDispatch, Drop
  <2> QED
    BY <2>1, DispatchedAt DEF PortOK
<1>1. Flow[1].kind = "sync" /\ Flow[1].obj = th
  BY <1>0 DEF DispatchSync, AtDispatch
<1>2. cur' = cur /\ cur.obj = Nobody
  BY DEF DispatchSync, Drop, PortOK, Handling, AtDispatch, NoPacket
<1>3. th \in Threads /\ call[th].at = "drain"
  <2>1. 1 \in DOMAIN Flow
    BY <1>0
  <2>2. WellFormed(Flow[1])
    BY <2>1 DEF PortOK
  <2>3. th \in Threads
    BY <1>1, <2>2, Apart DEF WellFormed
  <2> QED
    BY <1>1, <2>1, <2>3 DEF SyncOK
<1>4. call' = [call EXCEPT ![th].at = "drained"]
  BY <1>3 DEF DispatchSync
<1> HIDE DEF n, th
<1>5. /\ call'[th].at = "drained" /\ call'[th].obj = call[th].obj
      /\ \A u \in Threads \ {th} : call'[u] = call[u]
  <2>1. call[th] \in {Idle} \cup WatcherCalls \cup TimerCalls
    BY <1>3 DEF CallsOK
  <2> QED
    BY <1>3, <1>4, <2>1 DEF CallsOK, Idle, WatcherCalls, TimerCalls
<1>6. \A i \in 1..n - 1 : i + 1 \in 1..n /\ i + 1 > 1 /\ Flow'[i].obj # th
  <2>0. 1 \in 1..n
    BY <1>0
  <2>1. \A j \in 1..n : j > 1 => Flow[j].obj # th
    BY <1>0, <1>1, <2>0 DEF SyncOK
  <2> QED
    BY <1>0, <2>1
<1>7. \A i \in 1..n - 1 : Flow'[i].obj \in S => Flow'[i].obj # call[th].obj
  <2>1. \A j \in 1..n : j > 1 /\ Flow[j].obj \in S => Flow[j].obj # call[th].obj
    <3>1. 1 \in 1..n /\ \A j \in 1..n : j > 1 => 1 < j
      BY <1>0
    <3> QED
      BY <1>0, <1>1, <3>1 DEF Barrier
  <2> QED
    BY <1>0, <1>6, <2>1
<1>8. \A i \in 1..n - 1 : Flow'[i].kind = "sync" =>
        Flow'[i].obj \in Threads \ {th} /\ call'[Flow'[i].obj] = call[Flow'[i].obj]
  <2>1. \A i \in 1..n : Flow[i].kind = "sync" => Flow[i].obj \in Threads
    BY <1>0, Apart DEF PortOK, WellFormed
  <2> QED
    BY <1>0, <1>5, <1>6, <2>1
<1>9. SyncOK'
  <2>1. ASSUME NEW i \in 1..n - 1, Flow'[i].kind = "sync"
        PROVE  /\ call'[Flow'[i].obj].at = "drain"
               /\ \A j \in 1..n - 1 : j > i => Flow'[j].obj # Flow'[i].obj
    <3>1. /\ i + 1 \in 1..n /\ Flow'[i] = Flow[i + 1]
          /\ \A j \in 1..n - 1 : j > i => j + 1 \in 1..n /\ j + 1 > i + 1
      BY <1>0, <1>6
    <3>2. /\ call[Flow[i + 1].obj].at = "drain"
          /\ \A j \in 1..n : j > i + 1 => Flow[j].obj # Flow[i + 1].obj
      BY <1>0, <2>1, <3>1 DEF SyncOK
    <3> QED
      BY <1>0, <1>8, <2>1, <3>1, <3>2
  <2> QED
    BY <1>0, <2>1 DEF SyncOK
<1>10. ASSUME NEW u \in Threads, call'[u].at = "drained", call'[u].obj \in S
       PROVE  /\ cur'.obj # call'[u].obj
              /\ \A i \in 1..n - 1 : Flow'[i].obj # call'[u].obj
  <2>1. CASE u = th
    BY <1>2, <1>5, <1>7, <1>10, <2>1
  <2>2. CASE u # th
    <3>1. call'[u] = call[u]
      BY <1>5, <2>2
    <3>2. cur.obj # call[u].obj /\ \A i \in 1..n : Flow[i].obj # call[u].obj
      BY <1>0, <1>10, <3>1 DEF Barrier
    <3> QED
      BY <1>0, <1>2, <1>6, <3>1, <3>2
  <2> QED
    BY <2>1, <2>2
<1>11. ASSUME NEW i \in 1..n - 1, NEW j \in 1..n - 1, Flow'[i].kind = "sync", i < j,
              Flow'[j].obj \in S
       PROVE  Flow'[j].obj # call'[Flow'[i].obj].obj
  <2>1. Flow'[i] = Flow[i + 1] /\ Flow'[j] = Flow[j + 1] /\ i + 1 < j + 1
    BY <1>0, <1>11
  <2>2. Flow[j + 1].obj # call[Flow[i + 1].obj].obj
    BY <1>0, <1>6, <1>11, <2>1 DEF Barrier
  <2> QED
    BY <1>8, <1>11, <2>1, <2>2
<1> QED
  BY <1>0, <1>9, <1>10, <1>11 DEF Barrier


-----------------------------------------------------------------------------
(* How a step moves a call on *)

Calls == {Idle} \cup WatcherCalls \cup TimerCalls

\* Thread th alone moves: it begins a call on an object that no other call is
\* on, goes on with its call, or returns.  It does not leave a wait.
CallMove(th) ==
  /\ call' \in [Threads -> Calls]
  /\ \A u \in Threads \ {th} : call'[u] = call[u]
  /\ \/ call'[th] = Idle
     \/ call[th] # Idle /\ call'[th].obj = call[th].obj
     \/ MayCall(th, call'[th].obj)
  /\ call[th].at # "drain" /\ call'[th].at # "drained"
  /\ th = LoopThread =>
       call'[th].at \notin {"post", "drain"} /\ call'[th].next # "destroy"

\* What GoTo and Return do to the calls
LEMMA GoToCall ==
  ASSUME CallsOK, NEW th \in Threads, NEW a, GoTo(th, a)
  PROVE  /\ call'[th] = [at |-> a, obj |-> call[th].obj, next |-> call[th].next]
         /\ \A u \in Threads \ {th} : call'[u] = call[u]
         /\ call'[th] \in Calls => call' \in [Threads -> Calls]
<1>1. call \in [Threads -> Calls]
  BY DEF CallsOK, Calls
<1>2. call[th] \in Calls
  BY <1>1
<1>3. [call[th] EXCEPT !.at = a] = [at |-> a, obj |-> call[th].obj, next |-> call[th].next]
  BY <1>2 DEF Calls, Idle, WatcherCalls, TimerCalls
<1>4. call' = [call EXCEPT ![th] = [call[th] EXCEPT !.at = a]]
  BY DEF GoTo
<1> QED
  BY <1>1, <1>3, <1>4

LEMMA ReturnMove ==
  ASSUME PortOK, CallsOK, NEW th \in Threads, Return(th), call[th].at # "drain"
  PROVE  CallMove(th) /\ call'[th] = Idle
<1>1. call \in [Threads -> Calls] /\ Idle \in Calls
  BY DEF CallsOK, Calls
<1> QED
  BY <1>1 DEF Return, CallMove, Idle

\* A call on an object begins
LEMMA BeginMove ==
  ASSUME PortOK, CallsOK, NEW th \in Threads, NEW c \in Calls,
         call' = [call EXCEPT ![th] = c], MayCall(th, c.obj),
         c.at \notin {"post", "drain", "drained"}, th = LoopThread => c.next # "destroy"
  PROVE  CallMove(th) /\ call'[th] = c
<1>1. call \in [Threads -> Calls]
  BY DEF CallsOK, Calls
<1> QED
  BY <1>1 DEF CallMove, MayCall, Idle

\* The calls on watchers
LEMMA WatcherCallMoves ==
  ASSUME Answered, PortOK, CallsOK, NEW th \in Threads,
         \/ \E w \in Watchers :
              Stop(th, w) \/ Destroy(th, w) \/ \E rd \in BOOLEAN : WatcherCreate(th, w, rd)
         \/ RegisterArm(th) \/ Unregister(th) \/ Mark(th) \/ Cancel(th)
         \/ WatcherCallDone(th)
  PROVE  CallMove(th) /\ call'[th].obj \in Watchers \cup {Nobody}
<1>1. call \in [Threads -> Calls] /\ call[th] \in Calls
  BY DEF CallsOK, Calls
<1>2. ASSUME NEW w \in Watchers, Stop(th, w) \/ Destroy(th, w)
      PROVE  CallMove(th) /\ call'[th].obj \in Watchers \cup {Nobody}
  <2>1. PICK nx \in {"idle", "cleanup", "free"} :
          call' = [call EXCEPT ![th] = [at |-> "unregister", obj |-> w, next |-> nx]]
    BY <1>2 DEF Stop, Destroy
  <2>2. PICK c \in WatcherCalls : /\ call' = [call EXCEPT ![th] = c]
                                  /\ c.at = "unregister" /\ c.obj = w /\ c.next = nx
    <3>1. [at |-> "unregister", obj |-> w, next |-> nx] \in WatcherCalls
      BY DEF WatcherCalls
    <3> QED
      BY <2>1, <3>1
  <2>3. MayCall(th, w)
    BY <1>2 DEF Stop, Destroy
  <2> QED
    BY <2>2, <2>3, BeginMove DEF Calls
<1>3. ASSUME NEW w \in Watchers, NEW rd \in BOOLEAN, WatcherCreate(th, w, rd)
      PROVE  CallMove(th) /\ call'[th].obj \in Watchers \cup {Nobody}
  <2>1. MayCall(th, w)
    BY <1>3 DEF WatcherCreate
  <2>2. CASE call' = call
    BY <1>1, <2>1, <2>2 DEF CallMove, MayCall, Idle
  <2>3. CASE call' = [call EXCEPT ![th] = [at |-> "arm", obj |-> w, next |-> "free"]]
    <3>1. [at |-> "arm", obj |-> w, next |-> "free"] \in WatcherCalls
      BY DEF WatcherCalls
    <3>2. PICK c \in WatcherCalls : /\ call' = [call EXCEPT ![th] = c]
                                    /\ c.at = "arm" /\ c.obj = w /\ c.next = "free"
      BY <2>3, <3>1
    <3> QED
      BY <2>1, <3>2, BeginMove DEF Calls
  <2> QED
    BY <1>3, <2>2, <2>3 DEF WatcherCreate
<1>4. CASE RegisterArm(th) \/ Unregister(th) \/ Mark(th) \/ Cancel(th)
  <2>1. call[th] \in WatcherCalls /\ call[th].at \in {"arm", "unregister", "mark", "cancel"}
    BY <1>1, <1>4 DEF Calls, Idle, TimerCalls, RegisterArm, Unregister, Mark, Cancel
  <2>2. CASE Return(th)
    BY <2>1, <2>2, ReturnMove DEF Idle
  <2>3. ASSUME NEW a \in {"unregister", "done", "mark", "cancel", "post"}, GoTo(th, a),
               a = "post" => th # LoopThread
        PROVE  CallMove(th) /\ call'[th].obj \in Watchers \cup {Nobody}
    <3>1. /\ call'[th] = [at |-> a, obj |-> call[th].obj, next |-> call[th].next]
          /\ \A u \in Threads \ {th} : call'[u] = call[u]
          /\ call'[th] \in Calls => call' \in [Threads -> Calls]
      BY <2>3, GoToCall
    <3>2. call'[th] \in WatcherCalls
      BY <2>1, <3>1 DEF WatcherCalls
    <3>3. call[th] # Idle
      BY <2>1 DEF Idle
    <3> QED
      BY <2>1, <2>3, <3>1, <3>2, <3>3 DEF CallMove, Calls, WatcherCalls
  <2>4. \/ Return(th)
        \/ \E a \in {"unregister", "done", "mark", "cancel", "post"} :
             GoTo(th, a) /\ (a = "post" => th # LoopThread)
    BY <1>4 DEF RegisterArm, Unregister, Mark, Cancel
  <2> QED
    BY <2>2, <2>3, <2>4
<1>5. CASE WatcherCallDone(th)
  <2>1. call[th].at \in {"done", "drained"} /\ call[th].obj \in Watchers
    BY <1>5 DEF WatcherCallDone, TimesOut, Answered, CallsOK
  <2>2. call[th] \in WatcherCalls
    BY <1>1, <2>1, Apart DEF Calls, Idle, TimerCalls
  <2>3. CASE Return(th)
    BY <2>1, <2>3, ReturnMove DEF Idle
  <2>4. CASE call' = [call EXCEPT ![th].at = "unregister", ![th].next = "free"]
    <3>1. call'[th] = [at |-> "unregister", obj |-> call[th].obj, next |-> "free"]
      BY <1>1, <2>2, <2>4 DEF WatcherCalls
    <3>2. call'[th] \in WatcherCalls
      BY <2>1, <3>1 DEF WatcherCalls
    <3>3. call' \in [Threads -> Calls]
      BY <1>1, <2>4, <3>2 DEF Calls
    <3>4. \A u \in Threads \ {th} : call'[u] = call[u]
      BY <1>1, <2>4
    <3>5. call[th] # Idle
      BY <2>1 DEF Idle
    <3> QED
      BY <2>1, <3>1, <3>3, <3>4, <3>5 DEF CallMove
  <2> QED
    BY <1>5, <2>3, <2>4 DEF WatcherCallDone
<1> QED
  BY <1>2, <1>3, <1>4, <1>5


\* The calls on timers
LEMMA TimerCallMoves ==
  ASSUME Answered, PortOK, CallsOK, NEW th \in Threads,
         \/ \E t \in Timers : TimerStop(th, t) \/ TimerDestroy(th, t)
         \/ TimerDelete(th) \/ TimerJoin(th) \/ TimerMark(th) \/ TimerFlush(th)
         \/ TimerCallDone(th)
  PROVE  CallMove(th) /\ call'[th].obj \in Timers \cup {Nobody}
<1>1. call \in [Threads -> Calls] /\ call[th] \in Calls
  BY DEF CallsOK, Calls
<1>2. ASSUME NEW t \in Timers, TimerStop(th, t) \/ TimerDestroy(th, t)
      PROVE  CallMove(th) /\ call'[th].obj \in Timers \cup {Nobody}
  <2>1. PICK a \in {"delete", "destroy"}, nx \in {"idle", "destroy"} :
          /\ a = "destroy" => nx = "destroy"
          /\ nx = "destroy" => th # LoopThread
          /\ call' = [call EXCEPT ![th] = [at |-> a, obj |-> t, next |-> nx]]
    <3>1. CASE TimerStop(th, t)
      BY <3>1 DEF TimerStop
    <3>2. CASE TimerDestroy(th, t)
      BY <3>2 DEF TimerDestroy, Answered
    <3> QED
      BY <1>2, <3>1, <3>2
  <2>2. [at |-> a, obj |-> t, next |-> nx] \in TimerCalls
    BY <2>1 DEF TimerCalls
  <2>3. PICK c \in TimerCalls : /\ call' = [call EXCEPT ![th] = c]
                                /\ c.at = a /\ c.obj = t /\ c.next = nx
    BY <2>1, <2>2
  <2>4. MayCall(th, t)
    BY <1>2 DEF TimerStop, TimerDestroy
  <2> QED
    BY <2>1, <2>3, <2>4, BeginMove DEF Calls
<1>3. CASE TimerDelete(th) \/ TimerJoin(th) \/ TimerMark(th) \/ TimerFlush(th)
  <2>1. /\ call[th] \in TimerCalls
        /\ call[th].at \in {"delete", "join", "destroy", "flush"}
    BY <1>1, <1>3 DEF Calls, Idle, WatcherCalls, TimerDelete, TimerJoin, TimerMark,
                      TimerFlush
  <2>2. CASE Return(th)
    BY <2>1, <2>2, ReturnMove DEF Idle
  <2>3. ASSUME NEW a \in {"join", "destroy", "flush", "post"}, GoTo(th, a),
               a # "join" => call[th].next = "destroy"
        PROVE  CallMove(th) /\ call'[th].obj \in Timers \cup {Nobody}
    <3>1. /\ call'[th] = [at |-> a, obj |-> call[th].obj, next |-> call[th].next]
          /\ \A u \in Threads \ {th} : call'[u] = call[u]
          /\ call'[th] \in Calls => call' \in [Threads -> Calls]
      BY <2>3, GoToCall
    <3>2. call'[th] \in TimerCalls
      BY <2>1, <2>3, <3>1 DEF TimerCalls
    <3>3. call[th] # Idle
      BY <2>1 DEF Idle
    <3>4. th = LoopThread => call[th].next # "destroy"
      BY DEF CallsOK
    <3> QED
      BY <2>1, <2>3, <3>1, <3>2, <3>3, <3>4 DEF CallMove, Calls, TimerCalls
  <2>4. CASE TimerMark(th) \/ TimerFlush(th)
    <3>1. call[th].next = "destroy"
      BY <2>1, <2>4 DEF TimerMark, TimerFlush, TimerCalls
    <3> QED
      BY <2>3, <2>4, <3>1 DEF TimerMark, TimerFlush
  <2>5. CASE TimerDelete(th) \/ TimerJoin(th)
    <3>1. call[th].next \in {"idle", "destroy"}
      BY <2>1 DEF TimerCalls
    <3>2. Return(th) \/ GoTo(th, "join") \/ (GoTo(th, "destroy") /\ call[th].next = "destroy")
      BY <2>5, <3>1 DEF TimerDelete, TimerJoin, StopOver
    <3> QED
      BY <2>2, <2>3, <3>2
  <2> QED
    BY <1>3, <2>4, <2>5
<1>4. CASE TimerCallDone(th)
  <2>1. call[th].at = "drained" /\ Return(th)
    BY <1>4 DEF TimerCallDone, TimesOut, Answered, CallsOK
  <2> QED
    BY <2>1, ReturnMove DEF Idle
<1> QED
  BY <1>2, <1>3, <1>4

\* The post of the barrier's packet
LEMMA SyncMove ==
  ASSUME PortOK, CallsOK, NEW th \in Threads, PostSync(th)
  PROVE  CallMove(th) /\ call'[th].obj = call[th].obj /\ call[th].at = "post"
<1>1. call[th].at = "post" /\ GoTo(th, "drain")
  BY DEF PostSync
<1>2. /\ call'[th] = [at |-> "drain", obj |-> call[th].obj, next |-> call[th].next]
      /\ \A u \in Threads \ {th} : call'[u] = call[u]
      /\ call'[th] \in Calls => call' \in [Threads -> Calls]
  BY <1>1, GoToCall
<1>3. call[th] \in Calls
  BY DEF CallsOK, Calls
<1>4. call'[th] \in Calls
  BY <1>1, <1>2, <1>3 DEF Calls, Idle, WatcherCalls, TimerCalls
<1>5. th # LoopThread /\ call[th] # Idle
  BY <1>1 DEF CallsOK, Idle
<1> QED
  BY <1>1, <1>2, <1>4, <1>5 DEF CallMove

\* The answer to the barrier's packet
LEMMA AnswerMove ==
  ASSUME PortOK, CallsOK, SyncOK, DispatchSync
  PROVE  \E th \in Threads :
           /\ call[th].at = "drain" /\ th # LoopThread
           /\ call'[th] = [at |-> "drained", obj |-> call[th].obj, next |-> call[th].next]
           /\ call'[th] \in Calls
           /\ \A u \in Threads \ {th} : call'[u] = call[u]
           /\ call' \in [Threads -> Calls]
<1> DEFINE th == Head(batch).obj
<1>1. Dispatched
  BY BatchShrinks DEF PortOK, DispatchSync, AtDispatch, Drop
<1>2. 1 \in DOMAIN Flow /\ Flow[1].kind = "sync" /\ Flow[1].obj = th
  BY <1>1 DEF Dispatched, DispatchSync, AtDispatch
<1>3. th \in Threads /\ call[th].at = "drain"
  BY <1>2, Apart DEF PortOK, WellFormed, SyncOK
<1>4. GoTo(th, "drained")
  BY <1>3 DEF DispatchSync, GoTo
<1> HIDE DEF th
<1>5. /\ call'[th] = [at |-> "drained", obj |-> call[th].obj, next |-> call[th].next]
      /\ \A u \in Threads \ {th} : call'[u] = call[u]
      /\ call'[th] \in Calls => call' \in [Threads -> Calls]
  BY <1>3, <1>4, GoToCall
<1>6. call[th] \in Calls
  BY <1>3 DEF CallsOK, Calls
<1>7. call'[th] \in Calls
  BY <1>3, <1>5, <1>6 DEF Calls, Idle, WatcherCalls, TimerCalls
<1>8. th # LoopThread
  BY <1>3 DEF CallsOK
<1> QED
  BY <1>3, <1>5, <1>7, <1>8

\* A move leaves the calls apart from each other, and the waiters alone
LEMMA MoveKeepsCalls ==
  ASSUME PortOK, CallsOK, NEW th \in Threads, CallMove(th)
  PROVE  /\ CallsOK'
         /\ \A u \in Threads : /\ call[u].at = "drain" => call'[u] = call[u]
                               /\ call'[u].at = "drained" => call'[u] = call[u]
         /\ call'[LoopThread] # Idle => lpc \in {"out", "callback"}
<1>1. /\ call \in [Threads -> Calls]
      /\ \A u \in Threads : call[u].obj = Nobody => call[u] = Idle
  BY Apart DEF CallsOK, Calls, WatcherCalls, TimerCalls
<1>2. /\ call' \in [Threads -> Calls]
      /\ \A u \in Threads : call'[u].obj = Nobody => call'[u] = Idle
  BY Apart DEF CallMove, Calls, WatcherCalls, TimerCalls
<1>3. Idle.obj = Nobody
  BY DEF Idle
<1>4. ASSUME NEW a \in Threads, NEW b \in Threads, call'[a].obj = call'[b].obj
      PROVE  a = b \/ call'[a] = Idle
  <2>1. CASE a # th /\ b # th
    BY <1>4, <2>1 DEF CallMove, CallsOK
  <2>2. CASE a = th /\ b # th
    BY <1>1, <1>2, <1>3, <1>4, <2>2 DEF CallMove, CallsOK, MayCall
  <2>3. CASE a # th /\ b = th
    BY <1>1, <1>2, <1>3, <1>4, <2>3 DEF CallMove, CallsOK, MayCall
  <2> QED
    BY <2>1, <2>2, <2>3
<1>5. /\ call'[LoopThread].at \notin {"post", "drain", "drained"}
      /\ call'[LoopThread].next # "destroy"
  BY Apart DEF CallMove, CallsOK
<1>6. CallsOK'
  BY <1>2, <1>4, <1>5 DEF CallsOK, Calls
<1>7. call'[LoopThread] # Idle => lpc \in {"out", "callback"}
  BY Apart DEF CallMove, PortOK, MayCall
<1> QED
  BY <1>6, <1>7 DEF CallMove


-----------------------------------------------------------------------------
(* Every step is of one of five shapes, as far as the port is concerned *)

\* A packet comes from a read or a write in the kernel or a pool callback
Origin(p) ==
  \/ p.kind = "read" /\ reads[p.obj] > 0
  \/ p.kind = "write" /\ writes[p.obj] > 0
  \/ p.kind = "timer" /\ p.obj \in firing

PostStep ==
  \E p \in Packets : /\ Posted(p) /\ WellFormed(p) /\ Origin(p)
                     /\ p.kind # "sync"
                     /\ WaitersKept

ObjectStep ==
  /\ Dispatched
  /\ call' = call
  /\ cur'.obj \in {cur.obj, Nobody, Head(batch).obj}

Shape ==
  \/ Same /\ WaitersKept
  \/ PostStep
  \/ \E th \in Threads : PostSync(th)
  \/ ObjectStep
  \/ DispatchSync

\* A step of one thread that leaves the port alone
LEMMA CallShape ==
  ASSUME PortOK, CallsOK, NEW th \in Threads, CallMove(th),
         UNCHANGED <<queue, batch, cur, lpc, ran>>
  PROVE  PortOK' /\ CallsOK' /\ Same /\ WaitersKept
<1>1. /\ CallsOK'
      /\ \A u \in Threads : /\ call[u].at = "drain" => call'[u] = call[u]
                            /\ call'[u].at = "drained" => call'[u] = call[u]
      /\ call'[LoopThread] # Idle => lpc \in {"out", "callback"}
  BY MoveKeepsCalls
<1>2. Same /\ WaitersKept
  BY <1>1 DEF Same, Flow, WaitersKept
<1>3. Handling'
  BY DEF PortOK, Handling
<1>4. \A i \in DOMAIN Flow' : WellFormed(Flow'[i])
  BY <1>2 DEF Same, PortOK
<1>5. PortOK'
  <2>1. /\ queue' \in Seq(Packets) /\ batch' \in Seq(Packets) /\ Len(batch') <= MaxEvents
        /\ cur' \in Packets /\ ran' \in BOOLEAN
    BY DEF PortOK
  <2>2. call'[LoopThread] # Idle => lpc' \in {"out", "callback"}
    BY <1>1
  <2> QED
    BY <1>3, <1>4, <2>1, <2>2 DEF PortOK
<1> QED
  BY <1>1, <1>2, <1>5

\* A step of the loop thread between two packets or in the handling of one
LEMMA LoopShape ==
  ASSUME PortOK, CallsOK, queue' \in Seq(Packets), batch' \in Seq(Packets), Same,
         Len(batch') <= MaxEvents, call' = call, ran' \in BOOLEAN, lpc' # "out" => ran' = TRUE, cur' \in Packets,
         cur'.obj \in {cur.obj, Nobody}, Handling',
         call[LoopThread] # Idle => lpc' = lpc
  PROVE  PortOK' /\ CallsOK' /\ WaitersKept
<1>1. CallsOK'
  BY DEF CallsOK
<1>2. \A i \in DOMAIN Flow' : WellFormed(Flow'[i])
  BY DEF Same, PortOK
<1>3. call'[LoopThread] # Idle => lpc' \in {"out", "callback"}
  BY DEF PortOK
<1>4. PortOK'
  BY <1>2, <1>3 DEF PortOK
<1> QED
  BY <1>1, <1>4 DEF WaitersKept

\* A step that posts a packet of an object
LEMMA PostShape ==
  ASSUME PortOK, CallsOK, NEW p \in Packets, WellFormed(p), Origin(p), p.kind # "sync",
         queue' = Append(queue, p), UNCHANGED <<batch, cur, lpc, ran>>,
         call' = call \/ \E th \in Threads : CallMove(th)
  PROVE  PortOK' /\ CallsOK' /\ PostStep
<1>1. Posted(p)
  BY QueueGrows DEF PortOK
<1>2. /\ CallsOK'
      /\ \A u \in Threads : /\ call[u].at = "drain" => call'[u] = call[u]
                            /\ call'[u].at = "drained" => call'[u] = call[u]
      /\ call'[LoopThread] # Idle => lpc \in {"out", "callback"}
  <2>1. CASE call' = call
    BY <2>1 DEF CallsOK, PortOK
  <2>2. CASE \E th \in Threads : CallMove(th)
    BY <2>2, MoveKeepsCalls
  <2> QED
    BY <2>1, <2>2
<1>3. queue' \in Seq(Packets)
  BY AppendProperties DEF PortOK
<1>4. \A i \in DOMAIN Flow' : WellFormed(Flow'[i])
  <2>1. /\ Len(Flow) \in Nat /\ DOMAIN Flow = 1..Len(Flow)
        /\ DOMAIN Flow' = 1..Len(Flow) + 1
        /\ \A i \in 1..Len(Flow) : Flow'[i] = Flow[i]
        /\ Flow'[Len(Flow) + 1] = p
    BY <1>1, PostedAt DEF PortOK
  <2>2. ASSUME NEW i \in 1..Len(Flow) + 1 PROVE WellFormed(Flow'[i])
    <3>1. CASE i = Len(Flow) + 1
      BY <2>1, <3>1
    <3>2. CASE i \in 1..Len(Flow)
      BY <2>1, <3>2 DEF PortOK
    <3> QED
      BY <2>1, <3>1, <3>2
  <2> QED
    BY <2>1, <2>2
<1>5. Handling'
  BY DEF PortOK, Handling
<1>6. PortOK'
  <2>1. /\ batch' \in Seq(Packets) /\ Len(batch') <= MaxEvents
        /\ cur' \in Packets /\ ran' \in BOOLEAN
    BY DEF PortOK
  <2>2. call'[LoopThread] # Idle => lpc' \in {"out", "callback"}
    BY <1>2
  <2> QED
    BY <1>3, <1>4, <1>5, <2>1, <2>2 DEF PortOK
<1>7. WaitersKept
  BY <1>2 DEF WaitersKept
<1> QED
  BY <1>1, <1>2, <1>6, <1>7 DEF PostStep

\* A step that dispatches a packet
LEMMA DispatchShape ==
  ASSUME PortOK, CallsOK, AtDispatch({"sync", "read", "write", "timer"}),
         batch' = Tail(batch), queue' = queue, ran' = ran, cur' \in Packets, Handling',
         call'[LoopThread] = Idle
  PROVE  PortOK' /\ Dispatched
<1>1. Dispatched /\ batch' \in Seq(Packets) /\ Len(batch') <= MaxEvents
  BY BatchShrinks DEF PortOK, AtDispatch
<1>2. \A i \in DOMAIN Flow' : WellFormed(Flow'[i])
  <2>1. /\ Len(Flow) \in Nat \ {0} /\ DOMAIN Flow = 1..Len(Flow)
        /\ DOMAIN Flow' = 1..Len(Flow) - 1
        /\ \A i \in 1..Len(Flow) - 1 : Flow'[i] = Flow[i + 1]
    BY <1>1, DispatchedAt DEF PortOK
  <2>2. \A i \in 1..Len(Flow) - 1 : i + 1 \in 1..Len(Flow)
    BY <2>1
  <2> QED
    BY <2>1, <2>2 DEF PortOK
<1>3. PortOK'
  <2>1. queue' \in Seq(Packets) /\ ran' \in BOOLEAN /\ ran' = TRUE
    BY DEF PortOK, AtDispatch
  <2> QED
    BY <1>1, <1>2, <2>1 DEF PortOK
<1> QED
  BY <1>1, <1>3


LEMMA StepShape ==
  ASSUME Answered, PortOK, CallsOK, SyncOK, [Next]_vars
  PROVE  PortOK' /\ CallsOK' /\ Shape
<1>1. CASE UNCHANGED pvars
  <2>1. Same /\ WaitersKept
    BY <1>1 DEF pvars, Same, Flow, WaitersKept
  <2>2. CallsOK'
    BY <1>1 DEF pvars, CallsOK
  <2>3. PortOK'
    BY <1>1 DEF pvars, PortOK, Flow, Handling, WellFormed
  <2> QED
    BY <2>1, <2>2, <2>3 DEF Shape
<1>2. CASE LoopEnter \/ BatchDone
  <2>1. Same /\ queue' = queue /\ batch' = batch /\ cur' = cur
    BY <1>2 DEF LoopEnter, BatchDone, Same, Flow
  <2>2. Handling'
    BY <1>2 DEF LoopEnter, BatchDone, PortOK, Handling
  <2>3. /\ call' = call /\ ran' \in BOOLEAN /\ (lpc' # "out" => ran' = TRUE)
        /\ call[LoopThread] # Idle => lpc' = lpc
    BY <1>2 DEF LoopEnter, BatchDone, PortOK
  <2>4. /\ queue' \in Seq(Packets) /\ batch' \in Seq(Packets) /\ Len(batch') <= MaxEvents
        /\ cur' \in Packets
    BY <2>1 DEF PortOK
  <2> QED
    BY <2>1, <2>2, <2>3, <2>4, LoopShape DEF Shape
<1>3. CASE TakeBatch
  <2>1. lpc = "out" /\ batch = <<>> /\ cur' = cur /\ cur = NoPacket
    BY <1>3 DEF TakeBatch, PortOK, Handling
  <2>2. /\ Same /\ queue' \in Seq(Packets) /\ batch' \in Seq(Packets)
        /\ Len(batch') <= MaxEvents
    BY <1>3, <2>1, BatchTaken DEF PortOK
  <2>3. Handling'
    BY <1>3, <2>1 DEF TakeBatch, Handling
  <2>4. /\ call' = call /\ ran' \in BOOLEAN /\ ran' = TRUE /\ call[LoopThread] = Idle
        /\ cur' \in Packets
    BY <1>3 DEF TakeBatch, PortOK
  <2> QED
    BY <2>1, <2>2, <2>3, <2>4, LoopShape DEF Shape
<1>4. CASE Classify \/ Rearm \/ (\E ok \in BOOLEAN : RearmIssue(ok))
           \/ WatcherCallbackReturn \/ TimerCallbackReturn
  <2>1. Same /\ queue' = queue /\ batch' = batch
    BY <1>4 DEF Classify, Rearm, RearmIssue, WatcherCallbackReturn, TimerCallbackReturn,
                Same, Flow
  <2>2. call' = call /\ ran' \in BOOLEAN /\ ran' = TRUE /\ call[LoopThread] = Idle
    BY <1>4 DEF Classify, Rearm, RearmIssue, WatcherCallbackReturn, TimerCallbackReturn,
                PortOK
  <2>3. NoPacket.obj = Nobody /\ NoPacket \in Packets
    BY DEF NoPacket, Packets
  <2>4. CASE Classify
    <3>1. lpc = "examined" /\ cur.obj \in Watchers
      BY <2>4 DEF Classify, PortOK, Handling
    <3>2. EventOf(cur.obj, cur.res) \in {"NONE", "READ", "HANGUP", "ERROR"}
      BY DEF EventOf
    <3>3. CASE cur' = NoPacket /\ lpc' = "dispatch"
      BY <2>1, <2>2, <2>3, <3>3, LoopShape DEF Shape, PortOK, Handling
    <3>4. CASE cur' = Packet("read", cur.obj, EventOf(cur.obj, cur.res)) /\ lpc' = "callback"
      <4>1. /\ cur' \in Packets /\ cur'.obj = cur.obj /\ cur'.kind = "read"
            /\ cur'.res \in {"NONE", "READ", "HANGUP", "ERROR"}
        BY <3>1, <3>2, <3>4 DEF Packet, Packets
      <4>2. Handling'
        BY <3>1, <3>4, <4>1 DEF Handling
      <4> QED
        BY <2>1, <2>2, <4>1, <4>2, LoopShape DEF Shape, PortOK
    <3> QED
      BY <2>4, <3>3, <3>4 DEF Classify
  <2>5. CASE Rearm \/ (\E ok \in BOOLEAN : RearmIssue(ok))
             \/ WatcherCallbackReturn \/ TimerCallbackReturn
    <3>1. \/ cur' = NoPacket /\ lpc' = "dispatch"
          \/ cur' = cur /\ lpc' \in {"rearm", "issue"} /\ cur.kind = "read"
             /\ cur.obj \in Watchers /\ cur.res = "READ"
      <4>1. CASE Rearm \/ (\E ok \in BOOLEAN : RearmIssue(ok))
        BY <4>1 DEF Rearm, RearmIssue, PortOK, Handling, Packet
      <4>2. CASE WatcherCallbackReturn
        <5>1. cur.obj \notin Timers
          BY <4>2, Apart DEF WatcherCallbackReturn
        <5> QED
          BY <4>2, <5>1 DEF WatcherCallbackReturn, PortOK, Handling
      <4>3. CASE TimerCallbackReturn
        BY <4>3 DEF TimerCallbackReturn
      <4> QED
        BY <2>5, <4>1, <4>2, <4>3
    <3>2. cur' \in Packets /\ cur'.obj \in {cur.obj, Nobody}
      BY <2>3, <3>1 DEF PortOK
    <3>3. Handling'
      <4>1. CASE cur' = NoPacket /\ lpc' = "dispatch"
        BY <4>1 DEF Handling
      <4>2. CASE cur' = cur /\ lpc' \in {"rearm", "issue"} /\ cur.kind = "read"
                 /\ cur.obj \in Watchers /\ cur.res = "READ"
        <5>1. cur = Packet("read", cur.obj, "READ")
          BY <4>2 DEF PortOK, Packets, Packet
        <5> QED
          BY <4>2, <5>1 DEF Handling
      <4> QED
        BY <3>1, <4>1, <4>2
    <3> QED
      BY <2>1, <2>2, <3>2, <3>3, LoopShape DEF Shape, PortOK
  <2> QED
    BY <1>4, <2>4, <2>5
<1>5. ASSUME NEW th \in Threads,
             \/ \E w \in Watchers : Stop(th, w) \/ Destroy(th, w)
                                    \/ \E rd \in BOOLEAN : WatcherCreate(th, w, rd)
             \/ RegisterArm(th) \/ Unregister(th) \/ Mark(th) \/ WatcherCallDone(th)
             \/ \E t \in Timers : TimerStop(th, t) \/ TimerDestroy(th, t)
             \/ TimerDelete(th) \/ TimerJoin(th) \/ TimerMark(th) \/ TimerFlush(th)
             \/ TimerCallDone(th)
      PROVE  PortOK' /\ CallsOK' /\ Shape
  <2>1. CallMove(th)
    BY <1>5, WatcherCallMoves, TimerCallMoves
  <2>2. UNCHANGED <<queue, batch, cur, lpc, ran>>
    BY <1>5 DEF Stop, Destroy, WatcherCreate, RegisterArm, Unregister, Mark,
                WatcherCallDone, TimerStop, TimerDestroy, TimerDelete, TimerJoin, TimerMark,
                TimerFlush, TimerCallDone
  <2> QED
    BY <2>1, <2>2, CallShape DEF Shape
<1>6. ASSUME NEW th \in Threads, Cancel(th) PROVE PortOK' /\ CallsOK' /\ Shape
  <2> DEFINE w == call[th].obj
             p == Packet("read", w, "cancelled")
  <2>1. CallMove(th)
    BY <1>6, WatcherCallMoves
  <2>2. UNCHANGED <<batch, cur, lpc, ran>>
    BY <1>6 DEF Cancel
  <2>3. CASE UNCHANGED queue
    BY <2>1, <2>2, <2>3, CallShape DEF Shape
  <2>4. CASE queue' = Append(queue, p) /\ reads[w] > 0
    <3>1. w \in Watchers
      <4>1. call[th] \in Calls /\ call[th].at = "cancel"
        BY <1>6 DEF CallsOK, Calls, Cancel
      <4> QED
        BY <4>1 DEF Calls, Idle, WatcherCalls, TimerCalls
    <3>2. p \in Packets /\ WellFormed(p) /\ Origin(p) /\ p.kind # "sync"
      BY <2>4, <3>1 DEF Packet, Packets, WellFormed, Origin
    <3> QED
      BY <2>1, <2>2, <2>4, <3>2, PostShape DEF Shape
  <2> QED
    BY <1>6, <2>3, <2>4 DEF Cancel, CancelRead
<1>7. ASSUME NEW th \in Threads, NEW w \in Watchers, NEW rd \in BOOLEAN, Update(th, w, rd)
      PROVE  PortOK' /\ CallsOK' /\ Shape
  <2> DEFINE p == Packet("read", w, "cancelled")
  <2>1. UNCHANGED <<batch, cur, lpc, ran, call>>
    BY <1>7 DEF Update
  <2>2. CASE UNCHANGED queue
    BY <1>1, <2>1, <2>2 DEF pvars
  <2>3. CASE queue' = Append(queue, p) /\ reads[w] > 0
    <3>1. p \in Packets /\ WellFormed(p) /\ Origin(p) /\ p.kind # "sync"
      BY <2>3 DEF Packet, Packets, WellFormed, Origin
    <3> QED
      BY <2>1, <2>3, <3>1, PostShape DEF Shape
  <2> QED
    BY <1>7, <2>2, <2>3 DEF Update, CancelRead
<1>8. ASSUME NEW w \in Watchers, NEW res \in {"data", "eof", "error", "cancelled"},
             ReadCompletes(w, res)
      PROVE  PortOK' /\ CallsOK' /\ Shape
  <2> DEFINE p == Packet("read", w, res)
  <2>1. p \in Packets /\ WellFormed(p) /\ Origin(p) /\ p.kind # "sync"
    BY <1>8 DEF Packet, Packets, WellFormed, Origin, ReadCompletes
  <2> QED
    BY <1>8, <2>1, PostShape DEF Shape, ReadCompletes
<1>9. ASSUME NEW w \in Watchers, WriteCompletes(w) PROVE PortOK' /\ CallsOK' /\ Shape
  <2> DEFINE p == Packet("write", w, "none")
  <2>1. p \in Packets /\ WellFormed(p) /\ Origin(p) /\ p.kind # "sync"
    BY <1>9 DEF Packet, Packets, WellFormed, Origin, WriteCompletes
  <2> QED
    BY <1>9, <2>1, PostShape DEF Shape, WriteCompletes
<1>10. ASSUME NEW t \in Timers, TimerPost(t) PROVE PortOK' /\ CallsOK' /\ Shape
  <2> DEFINE p == Packet("timer", t, "none")
  <2>1. p \in Packets /\ WellFormed(p) /\ Origin(p) /\ p.kind # "sync"
    BY <1>10 DEF Packet, Packets, WellFormed, Origin, TimerPost
  <2> QED
    BY <1>10, <2>1, PostShape DEF Shape, TimerPost
<1>11. ASSUME NEW th \in Threads, PostSync(th) PROVE PortOK' /\ CallsOK' /\ Shape
  <2> DEFINE p == Packet("sync", th, "none")
  <2>1. CallMove(th) /\ call[th].at = "post"
    BY <1>11, SyncMove
  <2>2. /\ CallsOK'
        /\ call'[LoopThread] # Idle => lpc \in {"out", "callback"}
    BY <2>1, MoveKeepsCalls
  <2>3. p \in Packets /\ WellFormed(p)
    BY <2>1, WaiterObject DEF Packet, Packets, WellFormed
  <2>4. queue' = Append(queue, p) /\ UNCHANGED <<batch, cur, lpc, ran>>
    BY <1>11 DEF PostSync
  <2> HIDE DEF p
  <2>5. Posted(p) /\ queue' \in Seq(Packets)
    BY <2>3, <2>4, QueueGrows, AppendProperties DEF PortOK
  <2>6. \A i \in DOMAIN Flow' : WellFormed(Flow'[i])
    <3>1. /\ Len(Flow) \in Nat /\ DOMAIN Flow = 1..Len(Flow)
          /\ DOMAIN Flow' = 1..Len(Flow) + 1
          /\ \A i \in 1..Len(Flow) : Flow'[i] = Flow[i]
          /\ Flow'[Len(Flow) + 1] = p
      BY <2>5, PostedAt DEF PortOK
    <3>2. ASSUME NEW i \in 1..Len(Flow) + 1 PROVE WellFormed(Flow'[i])
      <4>1. CASE i = Len(Flow) + 1
        BY <2>3, <3>1, <4>1
      <4>2. CASE i \in 1..Len(Flow)
        BY <3>1, <4>2 DEF PortOK
      <4> QED
        BY <3>1, <4>1, <4>2
    <3> QED
      BY <3>1, <3>2
  <2>7. Handling'
    BY <2>4 DEF PortOK, Handling
  <2>8. PortOK'
    <3>1. /\ batch' \in Seq(Packets) /\ Len(batch') <= MaxEvents
          /\ cur' \in Packets /\ ran' \in BOOLEAN /\ (lpc' # "out" => ran' = TRUE)
      BY <2>4 DEF PortOK
    <3>2. call'[LoopThread] # Idle => lpc' \in {"out", "callback"}
      BY <2>2, <2>4
    <3> QED
      BY <2>5, <2>6, <2>7, <3>1, <3>2 DEF PortOK
  <2> QED
    BY <1>11, <2>2, <2>8 DEF Shape
<1>12. CASE Examine \/ DispatchTimer
  <2> DEFINE p == Head(batch)
  <2>1. /\ AtDispatch({"sync", "read", "write", "timer"}) /\ batch' = Tail(batch)
        /\ queue' = queue /\ ran' = ran /\ call' = call
    BY <1>12 DEF Examine, DispatchTimer, AtDispatch
  <2>2. call[LoopThread] = Idle /\ cur = NoPacket
    BY <2>1 DEF AtDispatch, PortOK, Handling
  <2>3. p \in Packets /\ WellFormed(p)
    <3>1. Dispatched
      BY <2>1, BatchShrinks DEF PortOK, AtDispatch
    <3>2. 1 \in DOMAIN Flow /\ Flow[1] = p
      BY <3>1 DEF Dispatched
    <3> QED
      BY <3>2, FlowType DEF PortOK
  <2>4. /\ cur' \in Packets /\ Handling'
        /\ cur'.obj \in {cur.obj, Nobody, p.obj}
    <3>1. CASE cur' = cur /\ lpc' = lpc
      BY <2>1, <2>2, <3>1 DEF AtDispatch, PortOK, Handling
    <3>2. CASE p.kind = "write" /\ cur' = Packet("write", p.obj, "WRITE") /\ lpc' = "callback"
      BY <2>3, <3>2 DEF WellFormed, Packet, Packets, Handling
    <3>3. CASE p.kind = "read" /\ cur' = p /\ lpc' = "examined"
      BY <2>3, <3>3 DEF WellFormed, Handling
    <3>4. CASE p.kind = "timer" /\ cur' = Packet("timer", p.obj, "READ") /\ lpc' = "callback"
      BY <2>3, <3>4 DEF WellFormed, Packet, Packets, Handling
    <3> QED
      BY <1>12, <3>1, <3>2, <3>3, <3>4 DEF Examine, DispatchTimer, AtDispatch
  <2>5. PortOK' /\ Dispatched
    BY <2>1, <2>2, <2>4, DispatchShape
  <2>6. CallsOK'
    BY <2>1 DEF CallsOK
  <2> QED
    BY <2>1, <2>4, <2>5, <2>6 DEF Shape, ObjectStep
<1>13. CASE DispatchSync
  <2>1. /\ AtDispatch({"sync", "read", "write", "timer"}) /\ batch' = Tail(batch)
        /\ queue' = queue /\ ran' = ran /\ cur' = cur /\ lpc' = lpc
    BY <1>13 DEF DispatchSync, AtDispatch, Drop
  <2>2. PICK th \in Threads :
           /\ call[th].at = "drain" /\ th # LoopThread
           /\ call'[th] = [at |-> "drained", obj |-> call[th].obj, next |-> call[th].next]
           /\ call'[th] \in Calls
           /\ \A u \in Threads \ {th} : call'[u] = call[u]
           /\ call' \in [Threads -> Calls]
    BY <1>13, AnswerMove
  <2>3. call'[LoopThread] = call[LoopThread] /\ call[LoopThread] = Idle
    BY <2>1, <2>2, Apart DEF AtDispatch, PortOK
  <2>4. Handling'
    BY <2>1 DEF AtDispatch, PortOK, Handling
  <2>5. PortOK'
    BY <2>1, <2>3, <2>4, DispatchShape DEF PortOK
  <2>6. CallsOK'
    <3>1. \A u \in Threads : call'[u].obj = call[u].obj /\ (call[u] = Idle => call'[u] = Idle)
      BY <2>2 DEF Idle
    <3>2. \A a, b \in Threads : call'[a].obj = call'[b].obj => a = b \/ call'[a] = Idle
      BY <3>1 DEF CallsOK
    <3> QED
      BY <2>2, <2>3, <3>2 DEF CallsOK, Calls, Idle
  <2> QED
    BY <1>13, <2>5, <2>6 DEF Shape
<1>14. ASSUME NEW th \in Threads, NEW w \in Watchers, Start(th, w)
       PROVE PortOK' /\ CallsOK' /\ Shape
  BY <1>1, <1>14 DEF Start
<1>15. ASSUME NEW th \in Threads, NEW t \in Timers, TimerCreate(th, t) \/ TimerStart(th, t)
       PROVE PortOK' /\ CallsOK' /\ Shape
  BY <1>1, <1>15 DEF TimerCreate, TimerStart
<1>16. ASSUME NEW w \in Watchers, WriteIssue(w) PROVE PortOK' /\ CallsOK' /\ Shape
  BY <1>1, <1>16 DEF WriteIssue
<1>17. ASSUME NEW t \in Timers, TimerFire(t) PROVE PortOK' /\ CallsOK' /\ Shape
  BY <1>1, <1>17 DEF TimerFire
<1>18. CASE DrainRead \/ UNCHANGED vars
  BY <1>1, <1>18 DEF DrainRead, vars
<1>19. CASE Dispatch \/ CallbackReturn
  BY <1>19, <1>2, <1>4, <1>12, <1>13 DEF Dispatch, CallbackReturn, WatcherDispatch
<1>20. CASE \E th \in Threads : CallStep(th)
  BY <1>20, <1>5, <1>6, <1>11 DEF CallStep, WatcherCallStep, TimerCallStep
<1>21. CASE WatcherApi \/ TimerApi
  BY <1>21, <1>5, <1>7, <1>14, <1>15 DEF WatcherApi, TimerApi
<1>22. CASE WatcherKernel \/ TimerPool
  BY <1>22, <1>8, <1>9, <1>10, <1>16, <1>17 DEF WatcherKernel, TimerPool
<1> QED
  BY <1>2, <1>3, <1>18, <1>19, <1>20, <1>21, <1>22 DEF Next


\* The barrier holds for the objects of S when no packet of an object that is
\* being waited for can still be posted
LEMMA BarrierStep ==
  ASSUME NEW S, S \cap Threads = {}, Nobody \notin S, PortOK, CallsOK, SyncOK, Barrier(S),
         Shape,
         \A p \in Packets, th \in Threads :
           /\ WellFormed(p) /\ Origin(p)
           /\ call[th].at \in {"drain", "drained"} /\ call[th].obj \in S
           => p.obj # call[th].obj
  PROVE  SyncOK' /\ Barrier(S)'
<1>1. CASE Same /\ WaitersKept
  BY <1>1, BarrierSame
<1>2. CASE PostStep
  <2>1. PICK p \in Packets : /\ Posted(p) /\ WellFormed(p) /\ Origin(p)
                             /\ p.kind # "sync"
                             /\ WaitersKept
    BY <1>2 DEF PostStep
  <2> QED
    BY <2>1, BarrierPosted
<1>3. CASE \E th \in Threads : PostSync(th)
  BY <1>3, BarrierStarted
<1>4. CASE ObjectStep
  BY <1>4, BarrierDispatched DEF ObjectStep
<1>5. CASE DispatchSync
  BY <1>5, BarrierPassed
<1> QED
  BY <1>1, <1>2, <1>3, <1>4, <1>5 DEF Shape

-----------------------------------------------------------------------------
(* The timers *)

\* Every packet of a timer is still one of an allocated timer after a step
\* that frees none
LEMMA TimerPackets ==
  ASSUME PortOK, CallsOK, SyncOK, TimersOK, Shape
  PROVE  \A i \in DOMAIN Flow' : Flow'[i].kind = "timer" => Flow'[i].obj \in talive
<1>0. \A i \in DOMAIN Flow : Flow[i].kind = "timer" => Flow[i].obj \in talive
  BY DEF TimersOK
<1>1. CASE Same
  BY <1>0, <1>1 DEF Same
<1>2. ASSUME NEW p, Posted(p), p.kind = "timer" => p.obj \in talive
      PROVE  \A i \in DOMAIN Flow' : Flow'[i].kind = "timer" => Flow'[i].obj \in talive
  <2>1. /\ Len(Flow) \in Nat /\ DOMAIN Flow = 1..Len(Flow)
        /\ DOMAIN Flow' = 1..Len(Flow) + 1
        /\ \A i \in 1..Len(Flow) : Flow'[i] = Flow[i]
        /\ Flow'[Len(Flow) + 1] = p
    BY <1>2, PostedAt DEF PortOK
  <2>2. \A i \in DOMAIN Flow' : i \in DOMAIN Flow \/ i = Len(Flow) + 1
    BY <2>1
  <2> QED
    BY <1>0, <1>2, <2>1, <2>2
<1>3. CASE PostStep
  <2>1. PICK p \in Packets : Posted(p) /\ Origin(p)
    BY <1>3 DEF PostStep
  <2>2. p.kind = "timer" => p.obj \in talive
    BY <2>1 DEF Origin, TimersOK
  <2> QED
    BY <1>2, <2>1, <2>2
<1>4. ASSUME NEW th \in Threads, PostSync(th)
      PROVE  \A i \in DOMAIN Flow' : Flow'[i].kind = "timer" => Flow'[i].obj \in talive
  <2> DEFINE p == Packet("sync", th, "none")
  <2>1. p \in Packets /\ p.kind = "sync"
    BY DEF Packet, Packets
  <2>2. Posted(p)
    BY <1>4, <2>1, QueueGrows DEF PostSync, PortOK
  <2> QED
    BY <1>2, <2>1, <2>2
<1>5. CASE Dispatched
  <2>1. /\ Len(Flow) \in Nat \ {0} /\ DOMAIN Flow = 1..Len(Flow)
        /\ DOMAIN Flow' = 1..Len(Flow) - 1
        /\ \A i \in 1..Len(Flow) - 1 : Flow'[i] = Flow[i + 1]
    BY <1>5, DispatchedAt DEF PortOK
  <2>2. \A i \in 1..Len(Flow) - 1 : i + 1 \in 1..Len(Flow)
    BY <2>1
  <2> QED
    BY <1>0, <2>1, <2>2
<1>6. DispatchSync => Dispatched
  BY BatchShrinks DEF PortOK, DispatchSync, AtDispatch, Drop
<1> QED
  BY <1>1, <1>3, <1>4, <1>5, <1>6 DEF Shape, ObjectStep

LEMMA TimersStep ==
  ASSUME Answered, Flushed, PInv, [Next]_vars
  PROVE  TimersOK'
<1> USE DEF PInv
<1>1. PortOK' /\ CallsOK' /\ Shape
  BY StepShape
<1>2. \A i \in DOMAIN Flow' : Flow'[i].kind = "timer" => Flow'[i].obj \in talive
  BY <1>1, TimerPackets
<1> DEFINE Called(th) ==
      call'[th].obj \in Timers =>
        /\ call'[th].obj \in talive'
        /\ call'[th].at = "join" => call'[th].obj \notin armed'
        /\ call'[th].at \in {"post", "drain", "drained"} => call'[th].obj \notin started'
<1>3. ASSUME NEW th \in Threads, call'[th] = call[th], talive' = talive,
             started' = started, armed' = armed
      PROVE  Called(th)
  BY <1>3 DEF TimersOK
<1>4. ASSUME UNCHANGED tvars, \A th \in Threads : Called(th),
             cur'.kind = "timer" => cur'.obj \in talive
      PROVE  TimersOK'
  BY <1>2, <1>4 DEF TimersOK, tvars
<1>5. ASSUME UNCHANGED <<tvars, call>>, cur'.kind = "timer" => cur'.obj \in talive
      PROVE  TimersOK'
  <2>1. \A th \in Threads : Called(th)
    BY <1>3, <1>5 DEF tvars
  <2> QED
    BY <1>4, <1>5, <2>1
<1>6. cur.kind = "timer" => cur.obj \in talive
  BY DEF TimersOK
<1>7. ASSUME UNCHANGED tvars, cur' = cur, NEW th \in Threads, CallMove(th),
             \/ call'[th].obj \in Watchers \cup {Nobody}
             \/ call[th].at = "post" /\ call'[th].obj = call[th].obj
      PROVE  TimersOK'
  <2>1. \A u \in Threads \ {th} : Called(u)
    BY <1>3, <1>7 DEF tvars, CallMove
  <2>2. Called(th)
    BY <1>7, Apart DEF TimersOK, tvars
  <2> QED
    BY <1>4, <1>6, <1>7, <2>1, <2>2
<1>8. CASE (DispatchSync \/ BatchDone \/ WatcherDispatch) /\ UNCHANGED tvars
  <2>1. CASE DispatchSync
    <3>1. PICK th \in Threads :
            /\ call[th].at = "drain" /\ th # LoopThread
            /\ call'[th] = [at |-> "drained", obj |-> call[th].obj, next |-> call[th].next]
            /\ call'[th] \in Calls
            /\ \A u \in Threads \ {th} : call'[u] = call[u]
            /\ call' \in [Threads -> Calls]
      BY <2>1, AnswerMove
    <3>2. Called(th)
      BY <1>8, <3>1 DEF TimersOK, tvars
    <3>3. \A u \in Threads \ {th} : Called(u)
      BY <1>3, <1>8, <3>1 DEF tvars
    <3>4. cur' = cur
      BY <2>1 DEF DispatchSync, Drop
    <3> QED
      BY <1>4, <1>6, <1>8, <3>2, <3>3, <3>4
  <2>2. CASE BatchDone
    BY <1>5, <1>6, <1>8, <2>2 DEF BatchDone
  <2>3. CASE Examine
    <3>1. cur' = cur \/ cur'.kind # "timer"
      BY <2>3 DEF Examine, Packet
    <3> QED
      BY <1>5, <1>6, <1>8, <2>3, <3>1 DEF Examine
  <2>4. CASE Classify \/ Rearm \/ \E ok \in BOOLEAN : RearmIssue(ok)
    <3>1. cur' = cur \/ cur'.kind # "timer"
      BY <2>4 DEF Classify, Rearm, RearmIssue, Packet, NoPacket
    <3> QED
      BY <1>5, <1>6, <1>8, <2>4, <3>1 DEF Classify, Rearm, RearmIssue
  <2> QED
    BY <1>8, <2>1, <2>2, <2>3, <2>4 DEF WatcherDispatch
<1>9. CASE DispatchTimer
  <2>1. cur' = cur \/ (cur'.obj \in talive)
    BY <1>9 DEF DispatchTimer, Packet, TimersOK
  <2> QED
    BY <1>5, <1>6, <1>9, <2>1 DEF DispatchTimer
<1>10. CASE CallbackReturn
  <2>1. cur' = cur \/ cur'.kind # "timer"
    BY <1>10 DEF CallbackReturn, WatcherCallbackReturn, TimerCallbackReturn, NoPacket
  <2> QED
    BY <1>5, <1>6, <1>10, <2>1
       DEF CallbackReturn, WatcherCallbackReturn, TimerCallbackReturn
<1>11. CASE \/ (LoopEnter \/ TakeBatch \/ WatcherKernel \/ DrainRead) /\ UNCHANGED tvars
            \/ UNCHANGED vars
  <2>1. UNCHANGED <<tvars, call, cur>>
    BY <1>11 DEF LoopEnter, TakeBatch, WatcherKernel, ReadCompletes, WriteIssue,
                 WriteCompletes, DrainRead, vars, pvars
  <2> QED
    BY <1>5, <1>6, <2>1
<1>12. ASSUME NEW th \in Threads, WatcherCallStep(th), UNCHANGED tvars PROVE TimersOK'
  <2>1. CallMove(th) /\ call'[th].obj \in Watchers \cup {Nobody}
    BY <1>12, WatcherCallMoves DEF WatcherCallStep
  <2>2. cur' = cur
    BY <1>12 DEF WatcherCallStep, RegisterArm, Unregister, Mark, Cancel, WatcherCallDone
  <2> QED
    BY <1>7, <1>12, <2>1, <2>2
<1>13. ASSUME NEW th \in Threads, PostSync(th), UNCHANGED tvars PROVE TimersOK'
  <2>1. CallMove(th) /\ call'[th].obj = call[th].obj /\ call[th].at = "post"
    BY <1>13, SyncMove
  <2> QED
    BY <1>7, <1>13, <2>1 DEF PostSync
<1>14. CASE WatcherApi /\ UNCHANGED tvars
  <2>1. ASSUME NEW th \in Threads, NEW w \in Watchers,
               \/ Stop(th, w) \/ Destroy(th, w)
               \/ \E rd \in BOOLEAN : WatcherCreate(th, w, rd)
        PROVE  TimersOK'
    <3>1. CallMove(th) /\ call'[th].obj \in Watchers \cup {Nobody}
      BY <2>1, WatcherCallMoves
    <3>2. cur' = cur
      BY <2>1 DEF Stop, Destroy, WatcherCreate
    <3> QED
      BY <1>7, <1>14, <3>1, <3>2
  <2>2. ASSUME NEW th \in Threads, NEW w \in Watchers,
               Start(th, w) \/ \E rd \in BOOLEAN : Update(th, w, rd)
        PROVE  TimersOK'
    <3>1. UNCHANGED <<call, cur>>
      BY <2>2 DEF Start, Update, pvars
    <3> QED
      BY <1>5, <1>6, <1>14, <3>1
  <2> QED
    BY <1>14, <2>1, <2>2 DEF WatcherApi
<1>15. ASSUME NEW th \in Threads, TimerCallStep(th) PROVE TimersOK'
  <2> DEFINE t == call[th].obj
  <2>1. CallMove(th) /\ call'[th].obj \in Timers \cup {Nobody} /\ cur' = cur
    BY <1>15, TimerCallMoves DEF TimerCallStep, TimerDelete, TimerJoin, TimerMark,
                                 TimerFlush, TimerCallDone
  <2>2. \A u \in Threads \ {th} : call'[u] = call[u]
    BY <2>1 DEF CallMove
  <2>3. t \in Timers
    <3>1. call[th] \in Calls
      BY DEF CallsOK, Calls
    <3> QED
      BY <1>15, <3>1 DEF TimerCallStep, TimerDelete, TimerJoin, TimerMark, TimerFlush,
                         TimerCallDone, Calls, Idle, WatcherCalls, TimerCalls
  <2>4. t \in talive
    BY <2>3 DEF TimersOK
  <2>5. \A u \in Threads \ {th} : call[u].obj # t
    BY <2>3, Apart DEF CallsOK, Idle
  <2>6. CASE TimerDelete(th) \/ TimerJoin(th) \/ TimerMark(th) \/ TimerFlush(th)
    <3>1. /\ talive' = talive /\ tdata' = tdata /\ firing' = firing
          /\ tactive' \subseteq tactive \cup {t} /\ destroyed' \subseteq destroyed \cup {t}
          /\ started' \in {started, started \ {t}} /\ armed' \in {armed, armed \ {t}}
          /\ started' # started => t \notin armed' \cup firing
      <4>1. CASE TimerDelete(th) \/ TimerMark(th)
        BY <4>1 DEF TimerDelete, TimerMark
      <4>2. CASE TimerFlush(th)
        BY <4>2 DEF TimerFlush, TimersOK, Flushed
      <4>3. CASE TimerJoin(th)
        BY <2>3, <4>3 DEF TimerJoin, TimersOK
      <4> QED
        BY <2>6, <4>1, <4>2, <4>3
    <3>2. /\ started' \cup destroyed' \cup tactive' \subseteq talive'
          /\ armed' \cup firing' \subseteq started'
          /\ talive' \subseteq Timers /\ tdata' = talive'
      BY <2>4, <3>1 DEF TimersOK
    <3>3. \A u \in Threads \ {th} : Called(u)
      BY <2>2, <3>1 DEF TimersOK
    <3>4. Called(th)
      <4>1. CASE call'[th] = Idle
        BY <4>1, Apart DEF Idle
      <4>2. ASSUME NEW a, GoTo(th, a), a = "join" => t \notin armed',
                   a = "post" => t \notin started', a \notin {"drain", "drained"}
            PROVE  Called(th)
        <5>0. call'[th] = [at |-> a, obj |-> call[th].obj, next |-> call[th].next]
          BY <4>2, GoToCall
        <5>1. call'[th].at = a /\ call'[th].obj = t
          BY <5>0
        <5> QED
          BY <2>4, <3>1, <4>2, <5>1
      <4>3. Return(th) => call'[th] = Idle
        BY DEF Return, CallsOK
      <4>4. CASE TimerDelete(th)
        <5>1. call[th].next \in {"idle", "destroy"}
          BY <2>3, <4>4, Apart DEF TimerDelete, CallsOK, Idle, WatcherCalls, TimerCalls
        <5>2. CASE StopOver(th)
          BY <4>1, <4>2, <4>3, <5>1, <5>2 DEF StopOver
        <5>3. CASE GoTo(th, "join") /\ armed' = armed \ {t}
          BY <4>2, <5>3
        <5> QED
          BY <4>4, <5>2, <5>3 DEF TimerDelete
      <4>5. CASE TimerJoin(th)
        <5>1. call[th].next \in {"idle", "destroy"}
          BY <2>3, <4>5, Apart DEF TimerJoin, CallsOK, Idle, WatcherCalls, TimerCalls
        <5> QED
          BY <4>1, <4>2, <4>3, <4>5, <5>1 DEF StopOver, TimerJoin
      <4>6. CASE TimerMark(th)
        BY <4>2, <4>6 DEF TimerMark
      <4>7. CASE TimerFlush(th)
        BY <4>2, <4>7 DEF TimerFlush
      <4> QED
        BY <2>6, <4>4, <4>5, <4>6, <4>7
    <3> QED
      BY <1>2, <1>6, <2>1, <3>1, <3>2, <3>3, <3>4 DEF TimersOK
  <2>7. CASE TimerCallDone(th)
    <3>1. call[th].at = "drained" /\ Return(th)
      BY <2>7 DEF TimerCallDone, TimesOut, Answered, CallsOK
    <3>2. /\ talive' = talive \ {t} /\ tdata' = tdata \ {t} /\ tactive' = tactive \ {t}
          /\ destroyed' = destroyed \ {t} /\ UNCHANGED <<queue, batch, started, armed, firing>>
      BY <2>7, <3>1 DEF TimerCallDone
    <3>3. t \notin started
      BY <2>3, <3>1 DEF TimersOK
    <3>4. /\ started' \cup destroyed' \cup tactive' \subseteq talive'
          /\ armed' \cup firing' \subseteq started'
          /\ talive' \subseteq Timers /\ tdata' = talive'
      BY <3>2, <3>3 DEF TimersOK
    <3>5. cur.obj # t /\ \A i \in DOMAIN Flow : Flow[i].obj # t
      BY <2>3, <3>1 DEF Barrier
    <3>6. Flow' = Flow
      BY <3>2 DEF Flow
    <3>7. \A i \in DOMAIN Flow' : Flow'[i].kind = "timer" => Flow'[i].obj \in talive'
      BY <1>2, <3>2, <3>5, <3>6
    <3>8. cur'.kind = "timer" => cur'.obj \in talive'
      BY <1>6, <2>1, <3>2, <3>5
    <3>9. \A u \in Threads \ {th} : Called(u)
      BY <2>2, <2>5, <3>2 DEF TimersOK
    <3>10. Called(th)
      BY <3>1, Apart DEF Return, CallsOK, Idle
    <3> QED
      BY <3>4, <3>7, <3>8, <3>9, <3>10 DEF TimersOK
  <2> QED
    BY <1>15, <2>6, <2>7 DEF TimerCallStep
<1>16. ASSUME NEW th \in Threads, NEW t \in Timers, TimerStop(th, t) \/ TimerDestroy(th, t)
       PROVE  TimersOK'
  <2>1. /\ CallMove(th) /\ cur' = cur /\ t \in talive
        /\ call'[th].obj = t /\ call'[th].at \in {"delete", "destroy"}
        /\ UNCHANGED <<talive, tdata, started, destroyed, armed, firing>>
        /\ tactive' \subseteq tactive
    <3>1. CallMove(th)
      BY <1>16, TimerCallMoves
    <3>2. call \in [Threads -> Calls]
      BY DEF CallsOK, Calls
    <3> QED
      BY <1>16, <3>1, <3>2 DEF TimerStop, TimerDestroy, TimersOK
  <2>2. \A u \in Threads \ {th} : Called(u)
    BY <1>3, <2>1 DEF CallMove
  <2>3. Called(th)
    BY <2>1
  <2>4. started' \cup destroyed' \cup tactive' \subseteq talive'
    BY <2>1 DEF TimersOK
  <2> QED
    BY <1>2, <1>6, <2>1, <2>2, <2>3, <2>4 DEF TimersOK
<1>17. ASSUME NEW th \in Threads, NEW t \in Timers, TimerCreate(th, t) \/ TimerStart(th, t)
       PROVE  TimersOK'
  <2>1. /\ UNCHANGED <<call, cur, destroyed, firing>>
        /\ talive' = talive \cup {t} /\ tdata' = talive'
        /\ tactive' \subseteq tactive \cup {t}
        /\ \/ started' = started /\ armed' = armed
           \/ started' = started \cup {t} /\ armed' = armed \cup {t}
    BY <1>17 DEF TimerCreate, TimerStart, pvars, TimersOK
  <2>2. \A u \in Threads : call[u].obj # t
    BY <1>17 DEF TimerCreate, TimerStart, MayCall
  <2>3. \A u \in Threads : Called(u)
    BY <2>1, <2>2 DEF TimersOK
  <2>4. /\ started' \cup destroyed' \cup tactive' \subseteq talive'
        /\ armed' \cup firing' \subseteq started'
        /\ talive' \subseteq Timers /\ tdata' = talive'
    BY <2>1 DEF TimersOK
  <2> QED
    BY <1>2, <1>6, <2>1, <2>3, <2>4 DEF TimersOK
<1>18. ASSUME NEW t \in Timers, TimerFire(t) \/ TimerPost(t)
       PROVE  TimersOK'
  <2>1. /\ UNCHANGED <<call, cur, talive, tdata, tactive, started, destroyed>>
        /\ armed' \subseteq armed /\ firing' \subseteq firing \cup armed
    BY <1>18 DEF TimerFire, TimerPost, pvars
  <2>2. \A u \in Threads : Called(u)
    BY <2>1 DEF TimersOK
  <2>3. armed' \cup firing' \subseteq started'
    BY <2>1 DEF TimersOK
  <2> QED
    BY <1>2, <1>6, <2>1, <2>2, <2>3 DEF TimersOK
<1> QED
  BY <1>8, <1>9, <1>10, <1>11, <1>12, <1>13, <1>14, <1>15, <1>16, <1>17, <1>18
     DEF Next, Dispatch, CallStep, TimerApi, TimerPool


-----------------------------------------------------------------------------
(* What holds of the port, the barrier and the timers *)

\* The outstanding packets are those of the flow and the one being handled
LEMMA OutstandingFlow ==
  ASSUME queue \in Seq(Packets), batch \in Seq(Packets)
  PROVE  Outstanding = {Flow[i] : i \in DOMAIN Flow} \cup {cur}
<1> DEFINE b == Len(batch)
           q == Len(queue)
<1>1. b \in Nat /\ q \in Nat /\ DOMAIN batch = 1..b /\ DOMAIN queue = 1..q
  OBVIOUS
<1>2. /\ Len(Flow) = b + q
      /\ \A i \in 1..b + q : Flow[i] = IF i <= b THEN batch[i] ELSE queue[i - b]
  BY ConcatProperties DEF Flow
<1>3. DOMAIN Flow = 1..b + q
  BY <1>2, FlowType
<1> HIDE DEF b, q
<1>4. \A i \in 1..b : i \in 1..b + q /\ Flow[i] = batch[i]
  BY <1>1, <1>2
<1>5. \A i \in 1..q : i + b \in 1..b + q /\ Flow[i + b] = queue[i]
  <2>1. ASSUME NEW i \in 1..q PROVE i + b \in 1..b + q /\ ~(i + b <= b) /\ (i + b) - b = i
    BY <1>1
  <2> QED
    BY <1>2, <2>1
<1>6. \A i \in 1..b + q : (i \in 1..b /\ Flow[i] = batch[i])
                          \/ (i - b \in 1..q /\ Flow[i] = queue[i - b])
  <2>1. ASSUME NEW i \in 1..b + q PROVE IF i <= b THEN i \in 1..b ELSE i - b \in 1..q
    BY <1>1
  <2> QED
    BY <1>2, <2>1
<1>7. {Flow[i] : i \in 1..b + q} = {queue[i] : i \in 1..q} \cup {batch[i] : i \in 1..b}
  <2>1. ASSUME NEW x \in {Flow[i] : i \in 1..b + q}
        PROVE  x \in {queue[i] : i \in 1..q} \cup {batch[i] : i \in 1..b}
    BY <1>6
  <2>2. ASSUME NEW x \in {queue[i] : i \in 1..q} PROVE x \in {Flow[i] : i \in 1..b + q}
    BY <1>5
  <2>3. ASSUME NEW x \in {batch[i] : i \in 1..b} PROVE x \in {Flow[i] : i \in 1..b + q}
    BY <1>4
  <2> QED
    BY <2>1, <2>2, <2>3
<1> QED
  BY <1>1, <1>3, <1>7 DEF Outstanding

LEMMA PInit == Init => PInv
<1> SUFFICES ASSUME Init PROVE PInv
  OBVIOUS
<1>1. /\ queue = <<>> /\ batch = <<>> /\ cur = NoPacket /\ lpc = "out" /\ ran = FALSE
      /\ call = [th \in Threads |-> Idle]
      /\ talive = {} /\ tactive = {} /\ tdata = {} /\ started = {} /\ destroyed = {}
      /\ armed = {} /\ firing = {}
  BY DEF Init, PortInit, TimerInit
<1>2. queue \in Seq(Packets) /\ batch \in Seq(Packets) /\ Len(batch) = 0
  BY <1>1
<1>3. DOMAIN Flow = {}
  BY <1>1, ConcatEmptySeq, <1>2 DEF Flow
<1>4. PortOK
  <2>1. cur \in Packets
    BY <1>1 DEF NoPacket, Packets
  <2>2. Handling
    BY <1>1 DEF Handling
  <2>3. Len(batch) <= MaxEvents
    BY <1>2, PortAssumption
  <2>4. call[LoopThread] = Idle /\ ran \in BOOLEAN
    BY <1>1, Apart
  <2>5. \A i \in DOMAIN Flow : WellFormed(Flow[i])
    BY <1>3
  <2> QED
    BY <1>1, <1>2, <2>1, <2>2, <2>3, <2>4, <2>5 DEF PortOK
<1>5. CallsOK
  BY <1>1, Apart DEF CallsOK, Idle
<1>6. SyncOK /\ Barrier(Timers)
  BY <1>1, <1>3 DEF SyncOK, Barrier, Idle
<1>7. TimersOK
  BY <1>1, <1>3, Apart DEF TimersOK, Idle, NoPacket
<1> QED
  BY <1>4, <1>5, <1>6, <1>7 DEF PInv

LEMMA PStep ==
  ASSUME Answered, Flushed, PInv, [Next]_vars
  PROVE  PInv'
<1>1. PortOK' /\ CallsOK' /\ Shape
  BY StepShape DEF PInv
<1>2. TimersOK'
  BY TimersStep
<1>3. ASSUME NEW p \in Packets, NEW th \in Threads, WellFormed(p), Origin(p),
             call[th].at \in {"drain", "drained"}, call[th].obj \in Timers
      PROVE  p.obj # call[th].obj
  <2>1. call[th].obj \notin firing
    BY <1>3 DEF PInv, TimersOK
  <2> QED
    BY <1>3, <2>1, Apart DEF WellFormed, Origin
<1>4. SyncOK' /\ Barrier(Timers)'
  BY <1>1, <1>3, Apart, BarrierStep DEF PInv
<1> QED
  BY <1>1, <1>2, <1>4 DEF PInv

LEMMA PAlways ==
  ASSUME Answered, Flushed
  PROVE  Spec => []PInv
BY PInit, PStep, PTL DEF Spec

\* SyncFrameLive for any number of threads, as long as barriers are answered
\* in time and the loop thread waits for none: the packet that
\* iocp_drain_sync posts never reaches a frame that has returned.
THEOREM FrameIsLive ==
  ASSUME Answered
  PROVE  Spec => []SyncFrameLive
<1> DEFINE Inv == PortOK /\ CallsOK /\ SyncOK
<1>1. Init => Inv
  BY PInit DEF PInv
<1>2. Inv /\ [Next]_vars => Inv'
  <2> SUFFICES ASSUME Inv, [Next]_vars PROVE Inv'
    OBVIOUS
  <2>1. PortOK' /\ CallsOK' /\ Shape
    BY StepShape
  <2>2. Barrier({})
    BY DEF Barrier
  <2>3. SyncOK'
    BY <2>1, <2>2, BarrierStep
  <2> QED
    BY <2>1, <2>3
<1>3. Inv => SyncFrameLive
  <2> SUFFICES ASSUME Inv, NEW p \in Outstanding, p.kind = "sync"
               PROVE  call[p.obj].at = "drain"
    BY DEF SyncFrameLive
  <2>1. p # cur
    BY DEF PortOK, Handling, NoPacket, Packet
  <2>2. \E i \in DOMAIN Flow : p = Flow[i]
    BY <2>1, OutstandingFlow DEF PortOK
  <2> QED
    BY <2>2 DEF SyncOK
<1> QED
  BY <1>1, <1>2, <1>3, PTL DEF Spec

\* The timers' part of FreedOnlyByRace and DrainIsBarrier: packets and pool
\* callbacks name allocated timers, and when iocp_timer_destroy has passed its
\* barrier none of the timer's is left.
TimerMemorySafe ==
  /\ \A p \in Outstanding : p.kind = "timer" => p.obj \in talive \cap tdata
  /\ firing \subseteq talive \cap tdata
  /\ \A th \in Threads :
       call[th].at = "drained" /\ call[th].obj \in Timers =>
         /\ \A p \in Outstanding : p.kind # "sync" => p.obj # call[th].obj
         /\ call[th].obj \notin firing

\* What the barrier is for, on the timers' side: it holds whatever else the
\* application does with its watchers, since timers rely only on the barrier
\* and on DeleteTimerQueueTimer.
THEOREM TimersAreSafe ==
  ASSUME Answered, Flushed
  PROVE  Spec => []TimerMemorySafe
<1>1. PInv => TimerMemorySafe
  <2> SUFFICES ASSUME PInv PROVE TimerMemorySafe
    OBVIOUS
  <2>1. Outstanding = {Flow[i] : i \in DOMAIN Flow} \cup {cur}
    BY OutstandingFlow DEF PInv, PortOK
  <2>2. \A p \in Outstanding : p.kind = "timer" => p.obj \in talive \cap tdata
    BY <2>1 DEF PInv, TimersOK
  <2>3. firing \subseteq talive \cap tdata
    BY DEF PInv, TimersOK
  <2>4. ASSUME NEW th \in Threads, call[th].at = "drained", call[th].obj \in Timers
        PROVE  /\ \A p \in Outstanding : p.kind # "sync" => p.obj # call[th].obj
               /\ call[th].obj \notin firing
    BY <2>1, <2>4 DEF PInv, TimersOK, Barrier
  <2> QED
    BY <2>2, <2>3, <2>4 DEF TimerMemorySafe
<1> QED
  BY <1>1, PAlways, PTL

=============================================================================
