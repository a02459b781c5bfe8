\* The last reference is dropped with two watchers left
CONSTANTS
  Threads = {t1}
  Refs = {r1, r2}
  NoThread = NoThread
  Watchers = {w1, w2}
  Configs <- AllCreations
  ShareUnprotected = FALSE
  GetAgain = FALSE
  MaxLeft = 2
SPECIFICATION Spec
INVARIANT WatchersDestroyed
CHECK_DEADLOCK FALSE
