\* The loop thread destroys a timer
SPECIFICATION Spec
CONSTANTS
  LoopThread = L
  Workers = {A}
  MaxEvents = 2
  QueueMax = 1
  Nobody = nobody
  Liberties = {"selfDestroy"}
  Watchers = {w1}
  Handles = {}
  Timers = {t1}
  Periodic = {t1}
  TimerFaults = {"stop"}
INVARIANTS SyncFrameLive
