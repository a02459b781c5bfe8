\* pd_loop_default and its release, twice in a row
CONSTANTS
  Threads = {t1}
  Refs = {r1, r2}
  NoThread = NoThread
  Watchers = {}
  Configs <- DefaultOnly
  ShareUnprotected = FALSE
  GetAgain = TRUE
  MaxLeft = 0
SPECIFICATION Spec
INVARIANT DefaultPersists
CHECK_DEADLOCK FALSE
