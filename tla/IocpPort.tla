------------------------------ MODULE IocpPort ------------------------------
(***************************************************************************)
(* The completion port of src/platform/iocp.c: one FIFO of packets, the    *)
(* loop thread that takes them in batches, and the drain barrier           *)
(* iocp_drain_sync, with which another thread waits until the loop thread  *)
(* has passed everything queued before.                                    *)
(*                                                                         *)
(* A packet names what its completion key or lpOverlapped points at: a     *)
(* watcher, a timer, or, for the barrier, the pd_iocp_sync_t on the stack  *)
(* of the waiting thread.  API calls take several steps; call[th] is where *)
(* thread th is in one.  What concerns watchers is in IocpRead, what       *)
(* concerns timers in IocpTimer.                                           *)
(***************************************************************************)
EXTENDS Naturals, Sequences

CONSTANTS
  LoopThread,  \* the thread that runs the loop and its callbacks
  Workers,     \* the other threads
  MaxEvents,   \* max_events_per_wait
  QueueMax,    \* bound: the kernel posts while the queue is shorter than this
  Nobody,      \* no object
  Liberties    \* what the application or the kernel does beyond the safe rules

Threads == Workers \cup {LoopThread}

ASSUME PortAssumption ==
  /\ LoopThread \notin Workers
  /\ Nobody \notin Threads
  /\ MaxEvents \in Nat \ {0}
  /\ QueueMax \in Nat \ {0}
  /\ Liberties \subseteq
       {"timeout", "selfDestroy", "register", "destroy", "ownCallback", "list", "reupdate",
        "toggle", "writes", "reissue", "undrained", "lateCancel"}

VARIABLES
  queue,  \* the packets in the port
  batch,  \* data->events[i .. num_entries - 1]
  cur,    \* the packet whose handling is under way
  lpc,    \* where the loop thread is in iocp_loop_run
  ran,    \* data->loop_thread_id # 0
  call    \* the API call each thread is in the middle of

pvars == <<queue, batch, cur, lpc, ran, call>>

NoPacket == [kind |-> "none", obj |-> Nobody, res |-> "none"]

Packet(kind, obj, res) == [kind |-> kind, obj |-> obj, res |-> res]

Idle == [at |-> "idle", obj |-> Nobody, next |-> "idle"]

PortInit ==
  /\ queue = <<>>
  /\ batch = <<>>
  /\ cur = NoPacket
  /\ lpc = "out"
  /\ ran = FALSE
  /\ call = [th \in Threads |-> Idle]

\* Thread th may begin an API call on object o, on which no other is under way
MayCall(th, o) ==
  /\ call[th] = Idle
  /\ th = LoopThread => lpc \in {"out", "callback"}
  /\ \A u \in Threads : call[u].obj # o

GoTo(th, at) == call' = [call EXCEPT ![th].at = at]

Return(th) == call' = [call EXCEPT ![th] = Idle]

\* The packets on their way to, or in the hands of, the loop thread
Outstanding ==
  {queue[i] : i \in DOMAIN queue} \cup {batch[i] : i \in DOMAIN batch} \cup {cur}

\* Where pd_loop_run_once sits between two API calls
AtDispatch(kinds) ==
  /\ lpc = "dispatch"
  /\ batch # <<>>
  /\ Head(batch).kind \in kinds

Drop ==
  /\ batch' = Tail(batch)
  /\ UNCHANGED <<lpc, cur>>

-----------------------------------------------------------------------------
(* iocp_loop_run *)

\* The entry, which records the thread's id, and a wait that times out
LoopEnter ==
  /\ lpc = "out"
  /\ call[LoopThread] = Idle
  /\ ~ran
  /\ ran' = TRUE
  /\ UNCHANGED <<queue, batch, cur, lpc, call>>

\* Mutant: the size of the events array is ignored
TakeBatchAll ==
  /\ lpc = "out"
  /\ call[LoopThread] = Idle
  /\ queue # <<>>
  /\ batch' = queue
  /\ queue' = <<>>
  /\ lpc' = "dispatch"
  /\ ran' = TRUE
  /\ UNCHANGED <<cur, call>>

\* GetQueuedCompletionStatusEx takes what is there, up to max_events
TakeBatch ==
  LET n == IF Len(queue) < MaxEvents THEN Len(queue) ELSE MaxEvents
  IN  /\ lpc = "out"
      /\ call[LoopThread] = Idle
      /\ queue # <<>>
      /\ batch' = SubSeq(queue, 1, n)
      /\ queue' = SubSeq(queue, n + 1, Len(queue))
      /\ lpc' = "dispatch"
      /\ ran' = TRUE
      /\ UNCHANGED <<cur, call>>

\* Mutant: the barrier's packet is skipped
DispatchSyncLost ==
  /\ AtDispatch({"sync"})
  /\ Drop
  /\ UNCHANGED <<queue, ran, call>>

\* A packet of the barrier: SetEvent on the event that the pd_iocp_sync_t of
\* the thread holds now.  The structure is on that thread's stack: when its
\* wait has timed out the packet reaches a dead frame, or the structure of a
\* later wait of the same thread.
DispatchSync ==
  LET th == Head(batch).obj
  IN  /\ AtDispatch({"sync"})
      /\ Drop
      /\ call' = IF call[th].at = "drain" THEN [call EXCEPT ![th].at = "drained"]
                                          ELSE call
      /\ UNCHANGED <<queue, ran>>

BatchDone ==
  /\ lpc = "dispatch"
  /\ batch = <<>>
  /\ lpc' = "out"
  /\ UNCHANGED <<queue, batch, cur, ran, call>>

-----------------------------------------------------------------------------
(* iocp_drain_sync *)

\* Mutant: the packet is posted at the head of the queue
PostSyncFirst(th) ==
  /\ call[th].at = "post"
  /\ queue' = <<Packet("sync", th, "none")>> \o queue
  /\ GoTo(th, "drain")
  /\ UNCHANGED <<batch, cur, lpc, ran>>

PostSync(th) ==
  /\ call[th].at = "post"
  /\ queue' = Append(queue, Packet("sync", th, "none"))
  /\ GoTo(th, "drain")
  /\ UNCHANGED <<batch, cur, lpc, ran>>

\* Mutant: the wait returns at once
TimesOutAtOnce(th) == call[th].at = "drain"

\* WaitForSingleObject gives up after 5 s: always when the loop thread itself
\* waits, and for another thread when the loop thread is that late
TimesOut(th) ==
  /\ call[th].at = "drain"
  /\ th = LoopThread \/ "timeout" \in Liberties

=============================================================================
