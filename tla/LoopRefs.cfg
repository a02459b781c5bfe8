\* Three threads share a protected loop, one uses an unprotected one
CONSTANTS
  Threads = {t1, t2, t3}
  Refs = {r1, r2, r3}
  NoThread = NoThread
  Watchers = {w1, w2}
  Configs <- AllCreations
  ShareUnprotected = FALSE
  GetAgain = FALSE
  MaxLeft = 1
SPECIFICATION FairSpec
INVARIANTS TypeOK CountMatches NoUseAfterFree TeardownAlone
INVARIANT WatchersDestroyed
PROPERTY DroppedIsFreed
CHECK_DEADLOCK FALSE
