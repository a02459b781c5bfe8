\* Timers and a watcher compete for descriptor numbers and records
CONSTANTS
  Watchers = {w1, w2, w3}
  NoCallback = {}
  Fds = {f1, f2}
  NoEntry = NoEntry
  NoWatcher = NoWatcher
  Masks = {{"READ"}}
  Conds = {"IN"}
  MaxEvents = 2
  Faults = {"ctl", "list"}
  CloseEarly = TRUE
  ReuseAddr = FALSE
  ShareFd = FALSE
  SameBatch = FALSE
  StaleUse = FALSE
  Timers = {t1, t2}
  Repeating = {t2}
  RestartFired = FALSE
SPECIFICATION FairSpec
INVARIANTS TimersTypeOK StartedIsPending ActiveIsMember
PROPERTIES FiresWhenDue OneShotFires
