-------------------------- MODULE LoopWakeupProofs --------------------------
(***************************************************************************)
(* Proofs about LoopWakeup for any number of threads, descriptors and data *)
(* values, any limit of the eventfd counter and each of the three          *)
(* backends.  The two safety invariants are inductive relative to TypeOK:  *)
(* each says that a wake-up or a pending async_send accounts for the flag  *)
(* or the data, and every step that takes one of the two away also clears  *)
(* what it accounts for.                                                   *)
(***************************************************************************)
EXTENDS LoopWakeup, TLAPS

(***************************************************************************)
(* The wait of every backend leaves a number of wake-ups in range.         *)
(***************************************************************************)
LEMMA SignalLeft ==
  ASSUME NEW n \in 0..SignalMax, NEW m \in Leaves(n)
  PROVE  m \in 0..SignalMax
<1>0. 0 \in 0..SignalMax
  BY ConstantsAssumption
<1>1. CASE backend = "epoll"
  BY <1>1 DEF Leaves, EpollWaitLeaves
<1>2. CASE backend = "kqueue"
  BY <1>0, <1>2 DEF Leaves, KeventLeaves
<1>3. CASE backend \notin {"epoll", "kqueue"}
  BY <1>3 DEF Leaves, PortLeaves
<1> QED
  BY <1>1, <1>2, <1>3

(***************************************************************************)
(* After async_send every backend has a wake-up to report, at the limit of *)
(* the eventfd counter too.                                                *)
(***************************************************************************)
LEMMA SignalSent ==
  ASSUME NEW n \in 0..SignalMax
  PROVE  Sent(n) \in 0..SignalMax /\ Sent(n) > 0
<1>0. SignalMax \in Nat /\ SignalMax > 0
  BY ConstantsAssumption
<1>1. CASE backend = "epoll"
  BY <1>0, <1>1 DEF Sent, EpollAsyncSend
<1>2. CASE backend = "kqueue"
  BY <1>0, <1>2 DEF Sent, KqueueAsyncSend
<1>3. CASE backend \notin {"epoll", "kqueue"}
  BY <1>0, <1>3 DEF Sent, IocpLoopStop
<1> QED
  BY <1>1, <1>2, <1>3

(***************************************************************************)
(* The flags, counters and program counters of the loop and its callers    *)
(* stay in range; in particular the eventfd counter saturates.             *)
(***************************************************************************)
THEOREM TypeCorrect == Spec => []TypeOK
<1> USE DEF LoopPcs, Calls, CallPcs, Threads, Backends
<1>0. 0 \in 0..SignalMax
  BY ConstantsAssumption
<1>1. Init => TypeOK
  BY <1>0, Zenon DEF Init, TypeOK
<1>2. TypeOK /\ [Next]_vars => TypeOK'
  <2> SUFFICES ASSUME TypeOK, [Next]_vars PROVE TypeOK'
    OBVIOUS
  <2>0. backend' = backend
    BY DEF Next, vars
  <2> USE <2>0 DEF TypeOK
  <2>1. CASE LoopRunEnter
    BY <2>1 DEF LoopRunEnter
  <2>2. ASSUME NEW c \in {"poll", "block"}, LoopRunOnce(c) PROVE TypeOK'
    BY <2>2 DEF LoopRunOnce
  <2>3. CASE LoopRunReset
    BY <2>3 DEF LoopRunReset
  <2>4. CASE LoopRunCheck
    BY <2>4 DEF LoopRunCheck
  <2>5. CASE RunOnceCheck
    BY <2>5 DEF RunOnceCheck, OnceReturns
  <2>6. CASE DispatchAsync
    BY <1>0, <2>6, Zenon DEF DispatchAsync
  <2>7. ASSUME NEW s \in Sources, DispatchSource(s) PROVE TypeOK'
    BY <2>7 DEF DispatchSource
  <2>8. CASE DispatchDone
    BY <2>8 DEF DispatchDone, OnceReturns
  <2>9. ASSUME NEW S \in SUBSET (Sources \cup {Async}), Wait(S)
        PROVE  TypeOK'
    BY <2>9, SignalLeft DEF Wait
  <2>10. CASE WaitNothing
    BY <2>10 DEF WaitNothing, OnceReturns
  <2>11. CASE WaitError
    BY <2>11 DEF WaitError
  <2>12. CASE CallbackReturn
    BY <2>12 DEF CallbackReturn
  <2>13. ASSUME NEW t \in Threads, StopSet(t) PROVE TypeOK'
    BY <2>13 DEF StopSet
  <2>14. ASSUME NEW t \in Threads, NEW d \in Data, SendSet(t, d) PROVE TypeOK'
    BY <2>14 DEF SendSet
  <2>15. ASSUME NEW t \in Threads, AsyncSend(t) PROVE TypeOK'
    BY <2>15, SignalSent DEF AsyncSend
  <2>16. ASSUME NEW t \in Threads, NEW s \in Sources, AddWatcher(t, s)
         PROVE  TypeOK'
    BY <2>16 DEF AddWatcher
  <2>17. ASSUME NEW t \in Threads, NEW s \in Sources, RemoveWatcher(t, s)
         PROVE  TypeOK'
    BY <2>17 DEF RemoveWatcher
  <2>18. ASSUME NEW s \in Sources, SourceReady(s) PROVE TypeOK'
    BY <2>18 DEF SourceReady
  <2>19. CASE UNCHANGED vars
    BY <2>19 DEF vars
  <2> QED
    BY <2>1, <2>2, <2>3, <2>4, <2>5, <2>6, <2>7, <2>8, <2>9, <2>10, <2>11,
       <2>12, <2>13, <2>14, <2>15, <2>16, <2>17, <2>18, <2>19
       DEF Next, Step, LoopStep
<1> QED
  BY <1>1, <1>2, PTL DEF Spec

(***************************************************************************)
(* A stop is never slept through: a loop thread that waits while           *)
(* stop_requested is set finds a wake-up to report or about to be sent.    *)
(***************************************************************************)
THEOREM StopNotMissed == Spec => []NoMissedStop
<1>1. Init => NoMissedStop
  BY DEF Init, NoMissedStop
<1>2. TypeOK /\ NoMissedStop /\ [Next]_vars => NoMissedStop'
  <2> SUFFICES ASSUME TypeOK, NoMissedStop, [Next]_vars PROVE NoMissedStop'
    OBVIOUS
  <2>1. CASE LoopRunEnter
    BY <2>1 DEF LoopRunEnter, NoMissedStop
  <2>2. ASSUME NEW c \in {"poll", "block"}, LoopRunOnce(c) PROVE NoMissedStop'
    BY <2>2 DEF LoopRunOnce, NoMissedStop
  <2>3. CASE LoopRunReset
    BY <2>3 DEF LoopRunReset, NoMissedStop
  <2>4. CASE LoopRunCheck
    BY <2>4 DEF LoopRunCheck, NoMissedStop
  <2>5. CASE RunOnceCheck
    BY <2>5 DEF RunOnceCheck, OnceReturns, NoMissedStop
  <2>6. CASE DispatchAsync
    BY <2>6 DEF DispatchAsync, NoMissedStop
  <2>7. ASSUME NEW s \in Sources, DispatchSource(s) PROVE NoMissedStop'
    BY <2>7 DEF DispatchSource, NoMissedStop
  <2>8. CASE DispatchDone
    BY <2>8 DEF DispatchDone, OnceReturns, NoMissedStop
  <2>9. ASSUME NEW S \in SUBSET (Sources \cup {Async}), Wait(S)
        PROVE  NoMissedStop'
    BY <2>9 DEF Wait, NoMissedStop
  <2>10. CASE WaitNothing
    BY <2>10 DEF WaitNothing, OnceReturns, NoMissedStop
  <2>11. CASE WaitError
    BY <2>11 DEF WaitError, NoMissedStop
  <2>12. CASE CallbackReturn
    BY <2>12 DEF CallbackReturn, NoMissedStop
  <2>13. ASSUME NEW t \in Threads, StopSet(t) PROVE NoMissedStop'
    <3>1. cpc'[t] = "stopWake"
      BY <2>13 DEF StopSet, TypeOK
    <3> QED
      BY <3>1 DEF NoMissedStop
  <2>14. ASSUME NEW t \in Threads, NEW d \in Data, SendSet(t, d)
         PROVE  NoMissedStop'
    <3>1. ASSUME NEW u \in Threads, cpc[u] = "stopWake" PROVE cpc'[u] = "stopWake"
      BY <2>14, <3>1 DEF SendSet, MayCall, TypeOK
    <3> QED
      BY <2>14, <3>1 DEF SendSet, NoMissedStop
  <2>15. ASSUME NEW t \in Threads, AsyncSend(t) PROVE NoMissedStop'
    <3>1. signal' > 0
      BY <2>15, SignalSent DEF AsyncSend, TypeOK
    <3> QED
      BY <3>1 DEF NoMissedStop
  <2>16. ASSUME NEW t \in Threads, NEW s \in Sources, AddWatcher(t, s)
         PROVE  NoMissedStop'
    BY <2>16 DEF AddWatcher, NoMissedStop
  <2>17. ASSUME NEW t \in Threads, NEW s \in Sources, RemoveWatcher(t, s)
         PROVE  NoMissedStop'
    BY <2>17 DEF RemoveWatcher, NoMissedStop
  <2>18. ASSUME NEW s \in Sources, SourceReady(s) PROVE NoMissedStop'
    BY <2>18 DEF SourceReady, NoMissedStop
  <2>19. CASE UNCHANGED vars
    BY <2>19 DEF vars, NoMissedStop
  <2> QED
    BY <2>1, <2>2, <2>3, <2>4, <2>5, <2>6, <2>7, <2>8, <2>9, <2>10, <2>11,
       <2>12, <2>13, <2>14, <2>15, <2>16, <2>17, <2>18, <2>19
       DEF Next, Step, LoopStep
<1> QED
  BY <1>1, <1>2, TypeCorrect, PTL DEF Spec

\* Entries wait to be processed only while loop_run is in its for loop
BatchInLoop == lpc \notin {"dispatch", "callback"} => batch = {}

(***************************************************************************)
(* loop_run leaves no entry of a batch unprocessed when it returns, so     *)
(* that no wake-up a wait took off the queue is dropped.                   *)
(***************************************************************************)
LEMMA BatchProcessed == Spec => []BatchInLoop
<1>1. Init => BatchInLoop
  BY DEF Init, BatchInLoop
<1>2. BatchInLoop /\ [Next]_vars => BatchInLoop'
  <2> SUFFICES ASSUME BatchInLoop, [Next]_vars PROVE BatchInLoop'
    OBVIOUS
  <2> USE DEF BatchInLoop
  <2>1. CASE LoopStep
    BY <2>1 DEF LoopStep, LoopRunReset, LoopRunCheck, RunOnceCheck, OnceReturns,
                DispatchAsync, DispatchSource, DispatchDone
  <2>2. ASSUME NEW S \in SUBSET (Sources \cup {Async}), Wait(S) PROVE BatchInLoop'
    BY <2>2 DEF Wait
  <2>3. CASE WaitNothing \/ WaitError \/ CallbackReturn
    BY <2>3 DEF WaitNothing, WaitError, CallbackReturn, OnceReturns
  <2>4. CASE LoopRunEnter \/ \E c \in {"poll", "block"} : LoopRunOnce(c)
    BY <2>4 DEF LoopRunEnter, LoopRunOnce
  <2>5. ASSUME NEW t \in Threads,
               \/ StopSet(t)
               \/ \E d \in Data : SendSet(t, d)
               \/ AsyncSend(t)
               \/ \E s \in Sources : AddWatcher(t, s) \/ RemoveWatcher(t, s)
        PROVE  BatchInLoop'
    BY <2>5 DEF StopSet, SendSet, AsyncSend, AddWatcher, RemoveWatcher
  <2>6. CASE \E s \in Sources : SourceReady(s)
    BY <2>6 DEF SourceReady
  <2>7. CASE UNCHANGED vars
    BY <2>7 DEF vars
  <2> QED
    BY <2>1, <2>2, <2>3, <2>4, <2>5, <2>6, <2>7 DEF Next, Step
<1> QED
  BY <1>1, <1>2, PTL DEF Spec

(***************************************************************************)
(* Data stored by pd_loop_async_send and not yet followed by the dispatch  *)
(* of a wake-up always has one pending or about to be sent.                *)
(***************************************************************************)
THEOREM NotifyNotLost == Spec => []NoLostNotify
<1>1. Init => NoLostNotify
  BY DEF Init, NoLostNotify
<1>2. TypeOK /\ BatchInLoop /\ NoLostNotify /\ [Next]_vars => NoLostNotify'
  <2> SUFFICES ASSUME TypeOK, BatchInLoop, NoLostNotify, [Next]_vars
               PROVE  NoLostNotify'
    OBVIOUS
  <2>1. CASE LoopRunEnter
    BY <2>1 DEF LoopRunEnter, NoLostNotify
  <2>2. ASSUME NEW c \in {"poll", "block"}, LoopRunOnce(c) PROVE NoLostNotify'
    BY <2>2 DEF LoopRunOnce, NoLostNotify
  <2>3. CASE LoopRunReset
    BY <2>3 DEF LoopRunReset, NoLostNotify
  <2>4. CASE LoopRunCheck
    BY <2>4 DEF LoopRunCheck, NoLostNotify
  <2>5. CASE RunOnceCheck
    BY <2>5 DEF RunOnceCheck, OnceReturns, NoLostNotify
  <2>6. CASE DispatchAsync
    BY <2>6 DEF DispatchAsync, NoLostNotify
  <2>7. ASSUME NEW s \in Sources, DispatchSource(s) PROVE NoLostNotify'
    BY <2>7 DEF DispatchSource, NoLostNotify
  <2>8. CASE DispatchDone
    BY <2>8 DEF DispatchDone, OnceReturns, NoLostNotify
  <2>9. ASSUME NEW S \in SUBSET (Sources \cup {Async}), Wait(S)
        PROVE  NoLostNotify'
    <3>1. batch = {}
      BY <2>9 DEF Wait, BatchInLoop
    <3> QED
      BY <2>9, <3>1 DEF Wait, NoLostNotify
  <2>10. CASE WaitNothing
    BY <2>10 DEF WaitNothing, OnceReturns, NoLostNotify
  <2>11. CASE WaitError
    BY <2>11 DEF WaitError, NoLostNotify
  <2>12. CASE CallbackReturn
    BY <2>12 DEF CallbackReturn, NoLostNotify
  <2>13. ASSUME NEW t \in Threads, StopSet(t) PROVE NoLostNotify'
    <3>1. ASSUME NEW u \in Threads, cpc[u] = "sendWake" PROVE cpc'[u] = "sendWake"
      BY <2>13, <3>1 DEF StopSet, MayCall, TypeOK
    <3> QED
      BY <2>13, <3>1 DEF StopSet, NoLostNotify
  <2>14. ASSUME NEW t \in Threads, NEW d \in Data, SendSet(t, d)
         PROVE  NoLostNotify'
    <3>1. cpc'[t] = "sendWake"
      BY <2>14 DEF SendSet, TypeOK
    <3> QED
      BY <3>1 DEF NoLostNotify
  <2>15. ASSUME NEW t \in Threads, AsyncSend(t) PROVE NoLostNotify'
    <3>1. signal' > 0
      BY <2>15, SignalSent DEF AsyncSend, TypeOK
    <3> QED
      BY <3>1 DEF NoLostNotify
  <2>16. ASSUME NEW t \in Threads, NEW s \in Sources, AddWatcher(t, s)
         PROVE  NoLostNotify'
    BY <2>16 DEF AddWatcher, NoLostNotify
  <2>17. ASSUME NEW t \in Threads, NEW s \in Sources, RemoveWatcher(t, s)
         PROVE  NoLostNotify'
    BY <2>17 DEF RemoveWatcher, NoLostNotify
  <2>18. ASSUME NEW s \in Sources, SourceReady(s) PROVE NoLostNotify'
    BY <2>18 DEF SourceReady, NoLostNotify
  <2>19. CASE UNCHANGED vars
    BY <2>19 DEF vars, NoLostNotify
  <2> QED
    BY <2>1, <2>2, <2>3, <2>4, <2>5, <2>6, <2>7, <2>8, <2>9, <2>10, <2>11,
       <2>12, <2>13, <2>14, <2>15, <2>16, <2>17, <2>18, <2>19
       DEF Next, Step, LoopStep
<1> QED
  BY <1>1, <1>2, TypeCorrect, BatchProcessed, PTL DEF Spec

=============================================================================
