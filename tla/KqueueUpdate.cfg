\* An update that changes the READ and WRITE bits
CONSTANTS
  Watchers = {w1, w2}
  NoCallback = {w2}
  Timers = {t1}
  TwoPhase = {}
  Fds = {f1, f2}
  NoEntry = NoEntry
  Nobody = Nobody
  Masks = {{"READ"}, {"READ", "WRITE"}}
  Flags = {"EOF"}
  MaxEvents = 2
  Faults = {}
  ChangeMask = TRUE
  SameBatch = FALSE
SPECIFICATION Spec
INVARIANT ActiveIsMember
