-------------------------------- MODULE Iocp --------------------------------
(***************************************************************************)
(* The IOCP backend: the watchers of IocpRead and the timers of IocpTimer  *)
(* share the completion port of IocpPort, the loop thread that empties it, *)
(* and the barrier.                                                        *)
(***************************************************************************)
EXTENDS IocpRead, IocpTimer

ASSUME ObjectsApart == Watchers \cap Timers = {}

vars == <<pvars, rvars, tvars>>

Init == PortInit /\ ReadInit /\ TimerInit

\* What iocp_loop_run does between two packets and within one
Dispatch ==
  \/ (DispatchSync \/ BatchDone) /\ UNCHANGED <<rvars, tvars>>
  \/ WatcherDispatch /\ UNCHANGED tvars
  \/ DispatchTimer /\ UNCHANGED rvars

\* The next step of the call thread th is in
CallStep(th) ==
  \/ WatcherCallStep(th) /\ UNCHANGED tvars
  \/ TimerCallStep(th) /\ UNCHANGED rvars
  \/ PostSync(th) /\ UNCHANGED <<rvars, tvars>>

CallbackReturn ==
  \/ WatcherCallbackReturn /\ UNCHANGED tvars
  \/ TimerCallbackReturn /\ UNCHANGED rvars

Next ==
  \/ Dispatch
  \/ CallbackReturn
  \/ (LoopEnter \/ TakeBatch) /\ UNCHANGED <<rvars, tvars>>
  \/ \E th \in Threads : CallStep(th)
  \/ (WatcherApi \/ WatcherKernel \/ DrainRead) /\ UNCHANGED tvars
  \/ (TimerApi \/ TimerPool) /\ UNCHANGED rvars

Spec == Init /\ [][Next]_vars

\* The application keeps running the loop and leaves its callbacks, having
\* drained the buffer; threads and the system's pool are scheduled
Fairness ==
  /\ WF_vars(Dispatch)
  /\ SF_vars(TakeBatch /\ UNCHANGED <<rvars, tvars>>)
  /\ SF_vars(DrainRead /\ UNCHANGED tvars)
  /\ SF_vars(CallbackReturn)
  /\ \A th \in Threads : SF_vars(CallStep(th))
  /\ WF_vars(TimerPool /\ firing' # firing /\ UNCHANGED rvars)

FairSpec == Spec /\ Fairness

-----------------------------------------------------------------------------
(* Properties *)

Packets ==
  [kind : {"none", "sync", "read", "write", "timer"},
   obj : Threads \cup Watchers \cup Timers \cup {Nobody},
   res : {"none", "data", "eof", "error", "cancelled", "READ", "WRITE", "HANGUP", "ERROR",
          "NONE"}]

\* Every variable has its type
IocpTypeOK ==
  /\ queue \in Seq(Packets)
  /\ batch \in Seq(Packets)
  /\ Len(batch) <= MaxEvents
  /\ cur \in Packets
  /\ lpc \in {"out", "dispatch", "examined", "callback", "rearm", "issue"}
  /\ ran \in BOOLEAN
  /\ call \in [Threads ->
                 [at : {"idle", "arm", "unregister", "mark", "cancel", "done", "delete",
                        "join", "destroy", "flush", "post", "drain", "drained"},
                  obj : Watchers \cup Timers \cup {Nobody},
                  next : {"idle", "cleanup", "free", "destroy"}]]
  /\ \A S \in {alive, active, wants, ptr, datum, pending, stopping, avail, ended,
              raced} :
       S \subseteq Watchers
  /\ reads \in [Watchers -> Nat]
  /\ writes \in [Watchers -> 0..1]
  /\ \A S \in {talive, tactive, tdata, started, destroyed, armed, firing} :
       S \subseteq Timers

\* Nothing that is still to be followed points at freed memory: the timer of a
\* packet or a pool callback; and for the watchers in S the watcher of a packet,
\* the OVERLAPPED and buffer of a read in the kernel, and the watcher that
\* iocp_loop_run looks at again after a callback.
MemoryLive(S) ==
  /\ \A p \in Outstanding :
       /\ p.kind = "read" /\ p.obj \in S => p.obj \in alive
       /\ p.kind = "timer" => p.obj \in talive \cap tdata
  /\ \A w \in S :
       /\ InPort("write", w) => w \in alive
       /\ reads[w] > 0 => w \in alive \cap datum
  /\ lpc \in {"examined", "issue"} /\ cur.obj \in S => cur.obj \in datum
  /\ firing \subseteq talive \cap tdata

\* When pd_watcher_destroy or pd_timer_destroy has returned, nothing leads to
\* the freed memory any more.
NoUseAfterFree == MemoryLive(Watchers)

\* With the barrier, freed memory is reached only by way of a race: a call that
\* finds pending_operation clear while a read is being handled, made by
\* another thread or, for pd_watcher_destroy, by the callback itself; or one
\* that cancels the read that a re-arm is about to issue.
FreedOnlyByRace == MemoryLive(Watchers \ raced)

\* The packet of a barrier points at a frame of iocp_drain_sync that has not
\* returned.
SyncFrameLive ==
  \A p \in Outstanding : p.kind = "sync" => call[p.obj].at = "drain"

\* The barrier is one: when it has let a thread pass, no packet, kernel read
\* or pool callback of the object it tears down is left, unless the thread
\* has overtaken the handling of a read.
DrainIsBarrier ==
  \A th \in Threads :
    call[th].at = "drained" /\ call[th].obj \notin raced =>
      /\ \A p \in Outstanding : p.kind # "sync" => p.obj # call[th].obj
      /\ call[th].obj \notin firing
      /\ call[th].obj \in Watchers => reads[call[th].obj] = 0

\* An OVERLAPPED is used by one read at a time, from its issue to the
\* dispatch of its packet, unless an update, by another thread or in the
\* callback, has come before the re-arm.
OneReadPerOverlapped ==
  \A w \in Watchers \ raced :
    LET mine(s) == {i \in DOMAIN s : ReadPacket(w, s[i])}
    IN  reads[w] + Cardinality(mine(queue)) + Cardinality(mine(batch)) <= 1

\* The kernel never holds two reads of one watcher, whatever is called and when.
NoSecondRead == \A w \in Watchers : reads[w] <= 1

\* pending_operation does not claim a read that is neither with the kernel
\* nor on its way to the dispatch.
PendingAccounted ==
  \A w \in ptr \cap pending :
    \/ w \in stopping
    \/ reads[w] > 0
    \/ InPort("read", w)
    \/ cur.obj = w /\ lpc \in {"examined", "issue"}

\* An active watcher that wants READ, and whose stream has not ended, has a
\* read under way: it is never left without one (dead-armed).
ReadStaysArmed ==
  \A w \in (active \cap wants) \ ended :
    (\A th \in Threads : call[th].obj # w) =>
      w \in ptr /\ (InFlight(w) \/ ReadPacket(w, cur))

\* While bytes that a READ callback has left in place wait in the buffer, no
\* read writes there.
UndrainedIsStable == \A w \in avail : reads[w] = 0

\* A callback starts only for a watcher that is active or being torn down,
\* with an event: a stopped watcher's packets are swallowed, unless a call has
\* overtaken the handling of a read.
CallsActive ==
  [][\A w \in Watchers \ raced :
       lpc # "callback" /\ lpc' = "callback" /\ cur'.obj = w =>
         /\ w \in active \/ \E th \in Threads : call[th].obj = w
         /\ cur'.res # "NONE"]_vars

\* Every API call returns: the barrier is let go, and a teardown never waits
\* for the thread that waits for it.
CallsReturn ==
  \A th \in Threads : call[th].at # "idle" ~> call[th].at = "idle"

=============================================================================
