\* Descriptors closed before their watchers and addresses reused
CONSTANTS
  Watchers = {w1, w2, w3}
  NoCallback = {w3}
  Fds = {f1, f2}
  NoEntry = NoEntry
  NoWatcher = NoWatcher
  Masks = {{"READ"}, {"WRITE", "HANGUP"}}
  Conds = {"IN", "RDHUP"}
  MaxEvents = 2
  Faults = {}
  CloseEarly = TRUE
  ReuseAddr = TRUE
  ShareFd = FALSE
  SameBatch = FALSE
  StaleUse = FALSE
SPECIFICATION EpollSpec
INVARIANT ActiveIsMember
