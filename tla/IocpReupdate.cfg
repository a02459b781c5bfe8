\* A READ callback registers a fresh read with pd_watcher_update
SPECIFICATION Spec
CONSTANTS
  LoopThread = L
  Workers = {}
  MaxEvents = 2
  QueueMax = 1
  Nobody = nobody
  Liberties = {"reupdate"}
  Watchers = {w1}
  Handles = {}
  Timers = {t1}
  Periodic = {t1}
  TimerFaults = {"stop"}
INVARIANTS NoSecondRead
