\* Two threads share a loop created with pd_loop_create(NULL)
CONSTANTS
  Threads = {t1, t2}
  Refs = {r1, r2}
  NoThread = NoThread
  Watchers = {}
  Configs <- NullOnly
  ShareUnprotected = TRUE
  GetAgain = FALSE
  MaxLeft = 0
SPECIFICATION Spec
INVARIANT NoUseAfterFree
CHECK_DEADLOCK FALSE
