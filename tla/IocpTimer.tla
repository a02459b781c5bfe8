----------------------------- MODULE IocpTimer -----------------------------
(***************************************************************************)
(* Timers over the completion port: src/platform/iocp.c under src/timer.c. *)
(* A timer is a timer-queue timer whose callback, on a thread of the       *)
(* system's pool, posts a packet that points at the pd_timer_t; the loop   *)
(* thread calls the user back when it dispatches the packet.  Destroying   *)
(* the timer must outwait both: the pool callback, which                   *)
(* DeleteTimerQueueTimer waits for, and the packets, for which             *)
(* iocp_drain_sync waits.  When that wait times out the timer is leaked:   *)
(* it stays in talive and destroyed.                                       *)
(*                                                                         *)
(* timer_data->started is set whenever timer->active is.  The placeholder  *)
(* watcher, which only holds its place in the loop's list, is left out.    *)
(***************************************************************************)
EXTENDS IocpPort

CONSTANTS
  Timers,      \* pd_timer_t structures
  Periodic,    \* those with interval_ms > 0
  TimerFaults  \* the calls of DeleteTimerQueueTimer that may fail: in "stop",
               \* in "destroy"

ASSUME TimerAssumption ==
  /\ Periodic \subseteq Timers
  /\ Timers \cap (Threads \cup {Nobody}) = {}
  /\ TimerFaults \subseteq {"stop", "destroy"}

VARIABLES
  talive,     \* allocated timers
  tactive,    \* timer->active
  tdata,      \* timer->platform_data is allocated
  started,    \* timer_data->started
  destroyed,  \* timer_data->destroyed
  armed,      \* the timers the system's timer queue will fire
  firing      \* pool callbacks that have found destroyed clear

tvars == <<talive, tactive, tdata, started, destroyed, armed, firing>>

TimerInit ==
  /\ talive = {} /\ tactive = {} /\ tdata = {}
  /\ started = {} /\ destroyed = {}
  /\ armed = {} /\ firing = {}

-----------------------------------------------------------------------------
(* pd_timer_create, _start, _stop *)

TimerCreate(th, t) ==
  /\ MayCall(th, t)
  /\ t \notin talive
  /\ talive' = talive \cup {t}
  /\ tdata' = tdata \cup {t}
  /\ UNCHANGED <<pvars, tactive, started, destroyed, armed, firing>>

TimerStart(th, t) ==
  /\ MayCall(th, t)
  /\ t \in talive \ (tactive \cup destroyed)
  /\ tactive' = tactive \cup {t}
  /\ started' = started \cup {t}
  /\ armed' = armed \cup {t}
  /\ UNCHANGED <<pvars, talive, tdata, destroyed, firing>>

TimerStop(th, t) ==
  /\ MayCall(th, t)
  /\ t \in tactive
  /\ tactive' = tactive \ {t}
  /\ call' = [call EXCEPT ![th] = [at |-> "delete", obj |-> t, next |-> "idle"]]
  /\ UNCHANGED <<queue, batch, cur, lpc, ran, talive, tdata, started, destroyed, armed,
                 firing>>

\* Where a stop goes on to: back to the caller, or to timer_destroy
StopOver(th) ==
  IF call[th].next = "idle" THEN Return(th) ELSE GoTo(th, call[th].next)

\* DeleteTimerQueueTimer with stop_event; when it fails timer->active is set
\* again
TimerDelete(th) ==
  LET t == call[th].obj
  IN  /\ call[th].at = "delete"
      /\ \/ /\ armed' = armed \ {t}
            /\ GoTo(th, "join")
            /\ UNCHANGED tactive
         \/ /\ "stop" \in TimerFaults
            /\ tactive' = tactive \cup {t}
            /\ StopOver(th)
            /\ UNCHANGED armed
      /\ UNCHANGED <<queue, batch, cur, lpc, ran, talive, tdata, started, destroyed,
                     firing>>

\* stop_event is signalled when the pool callback is over
TimerJoin(th) ==
  LET t == call[th].obj
  IN  /\ call[th].at = "join"
      /\ t \notin firing
      /\ started' = started \ {t}
      /\ StopOver(th)
      /\ UNCHANGED <<queue, batch, cur, lpc, ran, talive, tactive, tdata, destroyed, armed,
                     firing>>

-----------------------------------------------------------------------------
(* pd_timer_destroy *)

\* The loop thread that destroys a timer waits for itself
TimerDestroy(th, t) ==
  /\ MayCall(th, t)
  /\ th = LoopThread => "selfDestroy" \in Liberties
  /\ t \in talive \ destroyed
  /\ tactive' = tactive \ {t}
  /\ call' = [call EXCEPT ![th] =
                [at |-> IF t \in tactive THEN "delete" ELSE "destroy", obj |-> t,
                 next |-> "destroy"]]
  /\ UNCHANGED <<queue, batch, cur, lpc, ran, talive, tdata, started, destroyed, armed,
                 firing>>

\* iocp_timer_destroy: destroyed is set first
TimerMark(th) ==
  /\ call[th].at = "destroy"
  /\ destroyed' = destroyed \cup {call[th].obj}
  /\ GoTo(th, "flush")
  /\ UNCHANGED <<queue, batch, cur, lpc, ran, talive, tactive, tdata, started, armed,
                 firing>>

\* DeleteTimerQueueTimer with INVALID_HANDLE_VALUE waits for the pool
\* callback, or fails, which nobody notices; a timer that is not started has
\* none.  The barrier follows.
TimerFlush(th) ==
  LET t == call[th].obj
  IN  /\ call[th].at = "flush"
      /\ \/ /\ t \in started => t \notin firing
            /\ armed' = armed \ {t}
         \/ /\ t \in started /\ "destroy" \in TimerFaults
            /\ UNCHANGED armed
      /\ started' = started \ {t}
      /\ GoTo(th, "post")
      /\ UNCHANGED <<queue, batch, cur, lpc, ran, talive, tactive, tdata, destroyed,
                     firing>>

\* The timer and its data are freed only after a barrier that held
TimerCallDone(th) ==
  LET t == call[th].obj
      freed == IF call[th].at = "drained" THEN {t} ELSE {}
  IN  /\ call[th].at = "drained" \/ TimesOut(th)
      /\ t \in Timers
      /\ Return(th)
      /\ talive' = talive \ freed
      /\ tactive' = tactive \ freed
      /\ tdata' = tdata \ freed
      /\ destroyed' = destroyed \ freed
      /\ UNCHANGED <<queue, batch, cur, lpc, ran, started, armed, firing>>

-----------------------------------------------------------------------------
(* iocp_timer_callback on the pool's thread, and the dispatch *)

\* The queue timer fires; the callback returns if destroyed is set
TimerFire(t) ==
  /\ t \in armed \ firing
  /\ Len(queue) < QueueMax
  /\ armed' = IF t \in Periodic THEN armed ELSE armed \ {t}
  /\ firing' = IF t \in destroyed THEN firing ELSE firing \cup {t}
  /\ UNCHANGED <<pvars, talive, tactive, tdata, started, destroyed>>

TimerPost(t) ==
  /\ t \in firing
  /\ firing' = firing \ {t}
  /\ queue' = Append(queue, Packet("timer", t, "none"))
  /\ UNCHANGED <<batch, cur, lpc, ran, call, talive, tactive, tdata, started, destroyed,
                 armed>>

\* The user's callback runs unless the timer's destruction has begun
DispatchTimer ==
  LET t == Head(batch).obj
  IN  /\ AtDispatch({"timer"})
      /\ batch' = Tail(batch)
      /\ IF t \in tdata \ destroyed
           THEN cur' = Packet("timer", t, "READ") /\ lpc' = "callback"
           ELSE UNCHANGED <<cur, lpc>>
      /\ UNCHANGED <<queue, ran, call, tvars>>

TimerCallbackReturn ==
  /\ lpc = "callback"
  /\ cur.obj \in Timers
  /\ call[LoopThread] = Idle
  /\ lpc' = "dispatch"
  /\ cur' = NoPacket
  /\ UNCHANGED <<queue, batch, ran, call, tvars>>

-----------------------------------------------------------------------------

TimerApi ==
  \E th \in Threads, t \in Timers :
    \/ TimerCreate(th, t)
    \/ TimerStart(th, t)
    \/ TimerStop(th, t)
    \/ TimerDestroy(th, t)

TimerCallStep(th) ==
  \/ TimerDelete(th)
  \/ TimerJoin(th)
  \/ TimerMark(th)
  \/ TimerFlush(th)
  \/ TimerCallDone(th)

TimerPool ==
  \E t \in Timers : TimerFire(t) \/ TimerPost(t)

=============================================================================
