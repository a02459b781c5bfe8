\* A worker tears a watcher down while the loop thread re-arms its read
SPECIFICATION Spec
CONSTANTS
  LoopThread = L
  Workers = {A}
  MaxEvents = 2
  QueueMax = 1
  Nobody = nobody
  Liberties = {}
  Watchers = {w1}
  Handles = {}
  Timers = {t1}
  Periodic = {t1}
  TimerFaults = {"stop"}
INVARIANTS NoUseAfterFree
