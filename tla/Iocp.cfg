\* One socket watcher, one periodic timer and one thread beside the loop's;
\* callbacks may destroy their own watcher and register a read again
SPECIFICATION FairSpec
CONSTANTS
  LoopThread = L
  Workers = {A}
  MaxEvents = 2
  QueueMax = 1
  Nobody = nobody
  Liberties = {"ownCallback", "reupdate"}
  Watchers = {w1}
  Handles = {}
  Timers = {t1}
  Periodic = {t1}
  TimerFaults = {"stop"}
INVARIANTS
  IocpTypeOK
  FreedOnlyByRace
  SyncFrameLive
  DrainIsBarrier
  OneReadPerOverlapped
  PendingAccounted
  ReadStaysArmed
PROPERTIES
  CallsActive
  CallsReturn
