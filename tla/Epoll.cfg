\* Descriptors are closed and recycled while their watchers live on
CONSTANTS
  Watchers = {w1, w2, w3}
  NoCallback = {w3}
  Fds = {f1, f2}
  NoEntry = NoEntry
  NoWatcher = NoWatcher
  Masks = {{"READ"}, {"WRITE", "HANGUP"}}
  Conds = {"IN", "RDHUP"}
  MaxEvents = 2
  Faults = {"alloc", "grow", "list"}
  CloseEarly = TRUE
  ReuseAddr = FALSE
  ShareFd = FALSE
  SameBatch = FALSE
  StaleUse = FALSE
SPECIFICATION EpollSpec
INVARIANTS EpollTypeOK ActiveIsMember NoDanglingEntry MemberHasRecord
PROPERTY ImplementsContract
