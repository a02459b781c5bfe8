\* A READ callback leaves bytes in the buffer
SPECIFICATION Spec
CONSTANTS
  LoopThread = L
  Workers = {}
  MaxEvents = 2
  QueueMax = 1
  Nobody = nobody
  Liberties = {"undrained"}
  Watchers = {w1}
  Handles = {}
  Timers = {t1}
  Periodic = {t1}
  TimerFaults = {"stop"}
INVARIANTS UndrainedIsStable
