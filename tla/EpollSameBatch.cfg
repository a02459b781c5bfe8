\* A callback stops or destroys another watcher that is in the same batch
CONSTANTS
  Watchers = {w1, w2}
  NoCallback = {}
  Fds = {f1, f2}
  NoEntry = NoEntry
  NoWatcher = NoWatcher
  Masks = {{"READ"}}
  Conds = {"IN"}
  MaxEvents = 2
  Faults = {}
  CloseEarly = FALSE
  ReuseAddr = FALSE
  ShareFd = FALSE
  SameBatch = TRUE
  StaleUse = FALSE
SPECIFICATION EpollSpec
PROPERTY ImplementsContract
