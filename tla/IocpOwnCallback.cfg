\* A READ or HANGUP callback destroys its own watcher
SPECIFICATION Spec
CONSTANTS
  LoopThread = L
  Workers = {}
  MaxEvents = 2
  QueueMax = 1
  Nobody = nobody
  Liberties = {"ownCallback"}
  Watchers = {w1}
  Handles = {}
  Timers = {t1}
  Periodic = {t1}
  TimerFaults = {"stop"}
INVARIANTS NoUseAfterFree
