------------------------------ MODULE IocpRead ------------------------------
(***************************************************************************)
(* Watchers over the completion port: src/platform/iocp.c under            *)
(* src/watcher.c.  A watcher has one watcher_data, which holds the         *)
(* OVERLAPPED, the buffer and the flags of its one asynchronous read.  The *)
(* loop thread clears pending_operation when the read's packet is          *)
(* dispatched, calls back, and re-arms; a teardown that finds a read in    *)
(* flight sets stopping, cancels, and leaves freeing watcher_data to the   *)
(* dispatch of the last packet.  The flags are read and written by both    *)
(* without a lock, so every step between two of them is an action.         *)
(*                                                                         *)
(* A handle stays associated with the port, so pd_watcher_start fails for  *)
(* every stopped watcher.  Watchers have a callback.  A creation that      *)
(* fails before a read was issued changes nothing and is left out.         *)
(***************************************************************************)
EXTENDS FiniteSets, IocpPort

CONSTANTS
  Watchers,  \* pd_watcher_t structures
  Handles    \* the watchers of pd_watcher_create_for_handle

ASSUME ReadAssumption ==
  /\ Handles \subseteq Watchers
  /\ Watchers \cap (Threads \cup {Nobody}) = {}

VARIABLES
  alive,     \* allocated watchers
  active,    \* watcher->active
  wants,     \* READ is in watcher->events
  ptr,       \* watcher->platform_data is not NULL
  datum,     \* the watchers whose watcher_data is allocated
  pending,   \* watcher_data->pending_operation
  stopping,  \* watcher_data->stopping
  avail,     \* watcher_data->bytes_available is not 0
  ended,     \* history: the stream's end was reported, or a re-arm failed
  reads,     \* the reads the kernel holds on the watcher's OVERLAPPED
  writes,    \* the overlapped writes of the application in the kernel
  raced      \* history: the watchers of which a call, of another thread or in
             \* the callback, has overtaken the handling of a read

rvars == <<alive, active, wants, ptr, datum, pending, stopping, avail, ended,
           reads, writes, raced>>

\* The flags of watcher_data and the state of the watcher
flags == <<pending, stopping, avail>>
life == <<alive, active, wants, ended>>

ReadInit ==
  /\ alive = {} /\ active = {} /\ wants = {} /\ ended = {}
  /\ ptr = {} /\ datum = {}
  /\ pending = {} /\ stopping = {} /\ avail = {}
  /\ reads = [w \in Watchers |-> 0]
  /\ writes = [w \in Watchers |-> 0]
  /\ raced = {}

With(S, w, b) == IF b THEN S \cup {w} ELSE S \ {w}

ReadPacket(w, p) == p.kind = "read" /\ p.obj = w

InPort(kind, w) ==
  \E p \in Outstanding \ {cur} : p.kind = kind /\ p.obj = w

\* A read of w is with the kernel or on its way to the loop thread
InFlight(w) == reads[w] > 0 \/ InPort("read", w)

Cancelled(w) == Packet("read", w, "cancelled") \in Outstanding

\* CancelIoEx on the watcher's OVERLAPPED: the read, if the kernel still
\* holds it, ends with a cancelled packet
CancelRead(w) ==
  IF reads[w] > 0
    THEN /\ queue' = Append(queue, Packet("read", w, "cancelled"))
         /\ reads' = [reads EXCEPT ![w] = @ - 1]
    ELSE UNCHANGED <<queue, reads>>

FreeDatum(w) ==
  /\ datum' = datum \ {w}
  /\ ptr' = ptr \ {w}
  /\ pending' = pending \ {w}
  /\ stopping' = stopping \ {w}
  /\ avail' = avail \ {w}

-----------------------------------------------------------------------------
(* Calls in the middle of the handling of a read *)

\* Thread th looks at w while the loop thread is between the dispatch of a
\* read of w and the end of its re-arm.  The callback is one place for that,
\* but the re-arm survives a pd_watcher_stop there.
Overtakes(th, w) ==
  /\ ReadPacket(w, cur)
  /\ th # LoopThread \/ call[th].next = "free"

\* Such a call rests on a flag that the loop thread is about to change, or
\* takes from it what it looks at next, so what follows is undefined: from
\* then on no new call on w is followed
Races(w, b) == raced' = IF b THEN raced \cup {w} ELSE raced

-----------------------------------------------------------------------------
(* The rules the application keeps unless Liberties lifts them             *)

\* Client writes are drained before a watcher is stopped
WritesDrained(w) ==
  "writes" \in Liberties \/ (writes[w] = 0 /\ ~InPort("write", w))

\* With a read in flight, pd_watcher_destroy may free the watcher only after
\* the barrier, which takes another thread, a loop that has run, and a watcher
\* that was not stopped before.  A callback does not destroy its own watcher.
MayFree(th, w) ==
  /\ \/ ~InFlight(w)
     \/ th # LoopThread /\ ran /\ w \in active
     \/ "destroy" \in Liberties
  /\ th = LoopThread /\ ReadPacket(w, cur) => "ownCallback" \in Liberties

-----------------------------------------------------------------------------
(* pd_watcher_create and pd_watcher_create_for_handle *)

\* The association, and the first read if READ is asked for.  A socket
\* watcher publishes platform_data before the read is issued, a handle
\* watcher at the end.  pending_operation follows in the next step.
WatcherCreate(th, w, rd) ==
  /\ MayCall(th, w)
  /\ th # LoopThread => "register" \in Liberties
  /\ w \notin alive \cup datum
  /\ alive' = alive \cup {w}
  /\ active' = active \cup {w}
  /\ wants' = With(wants, w, rd)
  /\ datum' = datum \cup {w}
  /\ ptr' = With(ptr, w, ~(rd /\ w \in Handles))
  /\ reads' = [reads EXCEPT ![w] = IF rd THEN @ + 1 ELSE @]
  /\ ended' = ended \ {w}
  /\ call' = IF rd THEN [call EXCEPT ![th] = [at |-> "arm", obj |-> w, next |-> "free"]]
                   ELSE call
  /\ UNCHANGED <<queue, batch, cur, lpc, ran, flags, writes, raced>>

\* pending_operation is set; then the watcher goes into the loop's list, and
\* when there is no memory for that ("list") it is unregistered and freed
RegisterArm(th) ==
  LET w == call[th].obj
  IN  /\ call[th].at = "arm"
      /\ pending' = pending \cup {w}
      /\ ptr' = ptr \cup {w}
      /\ \/ Return(th)
         \/ "list" \in Liberties /\ GoTo(th, "unregister")
      /\ UNCHANGED <<queue, batch, cur, lpc, ran, life, datum, stopping, avail, reads,
                     writes, raced>>

-----------------------------------------------------------------------------
(* pd_watcher_update and pd_watcher_start *)

\* Mutant: the read is issued whether or not one is in flight
UpdateAnyway(th, w, rd) ==
  /\ MayCall(th, w)
  /\ w \in active
  /\ wants' = With(wants, w, rd)
  /\ pending' = IF rd THEN pending \cup {w} ELSE pending
  /\ reads' = [reads EXCEPT ![w] = IF rd /\ @ < 2 THEN @ + 1 ELSE @]
  /\ ended' = ended \ {w}
  /\ UNCHANGED <<pvars, alive, active, ptr, datum, stopping, avail, writes, raced>>

\* An in-flight read that is no longer wanted is cancelled, for a socket with
\* CancelIo, which leaves the reads other threads issued alone; a wanted one
\* is issued when none is in flight, with pending_operation set first.  The
\* flag is clear from the dispatch of a read to its re-arm, so a call in
\* between issues a second one.
Update(th, w, rd) ==
  /\ MayCall(th, w)
  /\ w \in active
  /\ wants' = With(wants, w, rd)
  /\ \/ /\ ~rd /\ w \in ptr \cap pending
        /\ \/ CancelRead(w)
           \/ w \notin Handles /\ UNCHANGED <<queue, reads>>
        /\ UNCHANGED <<pending, ended, raced>>
     \/ /\ rd /\ w \in ptr \ pending
        /\ th = LoopThread /\ cur = Packet("read", w, "READ") => "reupdate" \in Liberties
        /\ pending' = pending \cup {w}
        /\ \E ok \in BOOLEAN :
             /\ ok \/ "reissue" \in Liberties
             /\ reads' = [reads EXCEPT ![w] = IF ok THEN @ + 1 ELSE @]
             /\ ended' = IF ok THEN ended \ {w} ELSE ended
        /\ Races(w, ReadPacket(w, cur) /\ cur.res = "READ")
        /\ UNCHANGED queue
     \/ /\ w \in ptr => (rd <=> w \in pending)
        /\ rd /\ Cancelled(w) => "toggle" \in Liberties
        /\ UNCHANGED <<queue, pending, reads, ended, raced>>
  /\ UNCHANGED <<batch, cur, lpc, ran, call, alive, active, ptr, datum, stopping, avail,
                 writes>>

\* The association fails, which resets platform_data
Start(th, w) ==
  /\ MayCall(th, w)
  /\ w \in alive \ active
  /\ ptr' = ptr \ {w}
  /\ UNCHANGED <<pvars, life, datum, flags, reads, writes, raced>>

-----------------------------------------------------------------------------
(* pd_watcher_stop and pd_watcher_destroy *)

Stop(th, w) ==
  /\ MayCall(th, w)
  /\ w \in active
  /\ WritesDrained(w)
  /\ active' = active \ {w}
  /\ call' = [call EXCEPT ![th] = [at |-> "unregister", obj |-> w, next |-> "idle"]]
  /\ UNCHANGED <<queue, batch, cur, lpc, ran, alive, wants, ended, ptr, datum, flags,
                 reads, writes, raced>>

\* Stop, unless stopped already, then cleanup, then free: next says which of
\* the two unregistrations is under way
Destroy(th, w) ==
  /\ MayCall(th, w)
  /\ w \in alive
  /\ WritesDrained(w)
  /\ MayFree(th, w)
  /\ active' = active \ {w}
  /\ call' = [call EXCEPT ![th] =
                [at |-> "unregister", obj |-> w,
                 next |-> IF w \in active THEN "cleanup" ELSE "free"]]
  /\ UNCHANGED <<queue, batch, cur, lpc, ran, alive, wants, ended, ptr, datum, flags,
                 reads, writes, raced>>

\* Mutant: watcher_data is freed though a read is in flight
UnregisterNow(th) ==
  LET w == call[th].obj
  IN  /\ call[th].at = "unregister"
      /\ FreeDatum(w)
      /\ GoTo(th, "done")
      /\ UNCHANGED <<queue, batch, cur, lpc, ran, life, reads, writes, raced>>

\* iocp_watcher_unregister up to the test of pending_operation.  Without a
\* read to wait for there is no barrier, and the loop thread may still be
\* about to follow the watcher.
Unregister(th) ==
  LET w == call[th].obj
  IN  /\ call[th].at = "unregister"
      /\ \/ /\ w \notin ptr
            /\ active' = IF call[th].next = "free" THEN active ELSE active \cup {w}
            /\ GoTo(th, "done")
            /\ Races(w, Overtakes(th, w))
            /\ UNCHANGED <<ptr, datum, flags>>
         \/ /\ w \in ptr \cap stopping
            /\ GoTo(th, "done")
            /\ Races(w, Overtakes(th, w))
            /\ UNCHANGED <<active, ptr, datum, flags>>
         \/ /\ w \in ptr \ (stopping \cup pending)
            /\ FreeDatum(w)
            /\ GoTo(th, "done")
            /\ Races(w, Overtakes(th, w))
            /\ UNCHANGED active
         \/ /\ w \in (ptr \ stopping) \cap pending
            /\ GoTo(th, "mark")
            /\ UNCHANGED <<active, ptr, datum, flags, raced>>
      /\ UNCHANGED <<queue, batch, cur, lpc, ran, alive, wants, ended, reads, writes>>

\* Mutant: stopping is not set
MarkForgotten(th) ==
  /\ call[th].at = "mark"
  /\ GoTo(th, "cancel")
  /\ UNCHANGED <<queue, batch, cur, lpc, ran, rvars>>

\* stopping is set: the dispatch of the read's packet will free watcher_data,
\* if it is still to come, and a re-arm that has not begun is not made
Mark(th) ==
  LET w == call[th].obj
  IN  /\ call[th].at = "mark"
      /\ stopping' = stopping \cup {w}
      /\ GoTo(th, "cancel")
      /\ UNCHANGED <<queue, batch, cur, lpc, ran, life, ptr, datum, pending, avail, reads,
                     writes, raced>>

\* The read is cancelled, at once unless the driver is late, and a thread
\* other than the loop's goes on to the barrier.  A read that the re-arm is
\* about to issue is missed.
Cancel(th) ==
  LET w == call[th].obj
  IN  /\ call[th].at = "cancel"
      /\ \E late \in BOOLEAN :
           /\ late => "lateCancel" \in Liberties
           /\ IF late THEN UNCHANGED <<queue, reads>> ELSE CancelRead(w)
      /\ Races(w, Overtakes(th, w) /\ lpc = "issue")
      /\ GoTo(th, IF th # LoopThread /\ ran THEN "post" ELSE "done")
      /\ UNCHANGED <<batch, cur, lpc, ran, life, ptr, datum, flags, writes>>

\* What follows an unregistration; the barrier's result is not looked at
WatcherCallDone(th) ==
  LET w == call[th].obj
  IN  /\ call[th].at \in {"done", "drained"} \/ TimesOut(th)
      /\ w \in Watchers
      /\ \/ /\ call[th].next = "idle"
            /\ Return(th)
            /\ UNCHANGED <<life, ptr, flags>>
         \/ /\ call[th].next = "cleanup"
            /\ call' = [call EXCEPT ![th].at = "unregister", ![th].next = "free"]
            /\ UNCHANGED <<life, ptr, flags>>
         \/ /\ call[th].next = "free"
            /\ Return(th)
            /\ alive' = alive \ {w}
            /\ active' = active \ {w}
            /\ wants' = wants \ {w}
            /\ ended' = ended \ {w}
            /\ ptr' = ptr \ {w}
            /\ pending' = pending \ {w}
            /\ stopping' = stopping \ {w}
            /\ avail' = avail \ {w}
      /\ UNCHANGED <<queue, batch, cur, lpc, ran, datum, reads, writes, raced>>

-----------------------------------------------------------------------------
(* The kernel, and the application's own overlapped writes *)

ReadCompletes(w, res) ==
  /\ reads[w] > 0
  /\ Len(queue) < QueueMax
  /\ res = "cancelled" => w \in stopping /\ "lateCancel" \in Liberties
  /\ reads' = [reads EXCEPT ![w] = @ - 1]
  /\ queue' = Append(queue, Packet("read", w, res))
  /\ UNCHANGED <<batch, cur, lpc, ran, call, life, ptr, datum, flags, writes, raced>>

WriteIssue(w) ==
  /\ w \in active
  /\ \A th \in Threads : call[th].obj # w
  /\ writes[w] = 0 /\ ~InPort("write", w)
  /\ writes' = [writes EXCEPT ![w] = 1]
  /\ UNCHANGED <<pvars, life, ptr, datum, flags, reads, raced>>

WriteCompletes(w) ==
  /\ writes[w] > 0
  /\ Len(queue) < QueueMax
  /\ writes' = [writes EXCEPT ![w] = 0]
  /\ queue' = Append(queue, Packet("write", w, "none"))
  /\ UNCHANGED <<batch, cur, lpc, ran, call, life, ptr, datum, flags, reads, raced>>

-----------------------------------------------------------------------------
(* iocp_loop_run: the packets of watchers *)

\* A torn-down watcher's last packet frees watcher_data; a client's write is
\* reported as it is; a packet that finds no watcher_data is dropped
Examine ==
  LET p == Head(batch)
      w == p.obj
  IN  /\ AtDispatch({"read", "write"})
      /\ batch' = Tail(batch)
      /\ \/ /\ w \in ptr \cap stopping
            /\ FreeDatum(w)
            /\ UNCHANGED <<cur, lpc>>
         \/ /\ w \notin ptr
            /\ UNCHANGED <<cur, lpc, ptr, datum, flags>>
         \/ /\ w \in ptr \ stopping
            /\ p.kind = "write"
            /\ cur' = Packet("write", w, "WRITE")
            /\ lpc' = "callback"
            /\ UNCHANGED <<ptr, datum, flags>>
         \/ /\ w \in ptr \ stopping
            /\ p.kind = "read"
            /\ cur' = p
            /\ lpc' = "examined"
            /\ UNCHANGED <<ptr, datum, flags>>
      /\ UNCHANGED <<queue, ran, call, life, reads, writes, raced>>

\* The event a read's packet stands for
EventOf(w, res) ==
  IF w \notin pending THEN "NONE"
  ELSE CASE res = "data" -> "READ"
         [] res = "eof"  -> "HANGUP"
         [] OTHER        -> "ERROR"

\* Mutant: a cancelled read leaves pending_operation set
ClassifyKeepsPending ==
  LET w == cur.obj
      ev == EventOf(w, cur.res)
  IN  /\ lpc = "examined"
      /\ IF cur.res = "cancelled"
           THEN cur' = NoPacket /\ lpc' = "dispatch" /\ UNCHANGED <<pending, avail, ended>>
           ELSE /\ cur' = Packet("read", w, ev)
                /\ lpc' = "callback"
                /\ pending' = pending \ {w}
                /\ avail' = IF ev = "READ" THEN avail \cup {w} ELSE avail
                /\ ended' = IF ev \in {"HANGUP", "ERROR"} THEN ended \cup {w} ELSE ended
      /\ UNCHANGED <<queue, batch, ran, call, alive, active, wants, ptr, datum, stopping,
                     reads, writes, raced>>

\* A cancelled read is not reported; any other goes to the callback
Classify ==
  LET w == cur.obj
      ev == EventOf(w, cur.res)
  IN  /\ lpc = "examined"
      /\ pending' = pending \ {w}
      /\ \/ /\ cur.res = "cancelled"
            /\ cur' = NoPacket
            /\ lpc' = "dispatch"
            /\ UNCHANGED <<avail, ended>>
         \/ /\ cur.res # "cancelled"
            /\ cur' = Packet("read", w, ev)
            /\ lpc' = "callback"
            /\ avail' = IF ev = "READ" THEN avail \cup {w} ELSE avail
            /\ ended' = IF ev \in {"HANGUP", "ERROR"} THEN ended \cup {w} ELSE ended
      /\ UNCHANGED <<queue, batch, ran, call, alive, active, wants, ptr, datum, stopping,
                     reads, writes, raced>>

\* pd_watcher_drain_read in the callback, until nothing is left
DrainRead ==
  /\ lpc = "callback"
  /\ call[LoopThread] = Idle
  /\ cur.obj \in avail
  /\ avail' = avail \ {cur.obj}
  /\ UNCHANGED <<pvars, life, ptr, datum, pending, stopping, reads, writes, raced>>

\* Mutant: the re-arm of a READ is forgotten
CallbackReturnNoRearm ==
  /\ lpc = "callback"
  /\ cur.obj \in Watchers
  /\ call[LoopThread] = Idle
  /\ cur.obj \notin avail
  /\ lpc' = "dispatch"
  /\ cur' = NoPacket
  /\ UNCHANGED <<queue, batch, ran, call, rvars>>

WatcherCallbackReturn ==
  /\ lpc = "callback"
  /\ cur.obj \in Watchers
  /\ call[LoopThread] = Idle
  /\ cur.obj \notin avail \/ "undrained" \in Liberties
  /\ IF cur.res = "READ"
       THEN lpc' = "rearm" /\ UNCHANGED cur
       ELSE lpc' = "dispatch" /\ cur' = NoPacket
  /\ UNCHANGED <<queue, batch, ran, call, rvars>>

\* platform_data is read again, and pending_operation published
Rearm ==
  LET w == cur.obj
  IN  /\ lpc = "rearm"
      /\ IF w \in ptr \ stopping
           THEN pending' = pending \cup {w} /\ lpc' = "issue" /\ UNCHANGED cur
           ELSE lpc' = "dispatch" /\ cur' = NoPacket /\ UNCHANGED pending
      /\ UNCHANGED <<queue, batch, ran, call, life, ptr, datum, stopping, avail, reads,
                     writes, raced>>

RearmIssue(ok) ==
  LET w == cur.obj
  IN  /\ lpc = "issue"
      /\ reads' = [reads EXCEPT ![w] = IF ok THEN @ + 1 ELSE @]
      /\ pending' = With(pending, w, ok)
      /\ ended' = With(ended, w, ~ok)
      /\ lpc' = "dispatch"
      /\ cur' = NoPacket
      /\ UNCHANGED <<queue, batch, ran, call, alive, active, wants, ptr, datum, stopping,
                     avail, writes, raced>>

-----------------------------------------------------------------------------

WatcherApi ==
  \E th \in Threads, w \in Watchers \ raced :
    \/ Start(th, w)
    \/ Stop(th, w)
    \/ Destroy(th, w)
    \/ \E rd \in BOOLEAN : WatcherCreate(th, w, rd) \/ Update(th, w, rd)

WatcherCallStep(th) ==
  \/ RegisterArm(th)
  \/ Unregister(th)
  \/ Mark(th)
  \/ Cancel(th)
  \/ WatcherCallDone(th)

WatcherKernel ==
  \E w \in Watchers :
    \/ \E res \in {"data", "eof", "error", "cancelled"} : ReadCompletes(w, res)
    \/ WriteIssue(w)
    \/ WriteCompletes(w)

WatcherDispatch ==
  \/ Examine
  \/ Classify
  \/ Rearm
  \/ \E ok \in BOOLEAN : RearmIssue(ok)

=============================================================================
