\* A callback stops or destroys its own watcher, whose other filter is in the batch
CONSTANTS
  Watchers = {w1}
  NoCallback = {}
  Timers = {}
  TwoPhase = {}
  Fds = {f1}
  NoEntry = NoEntry
  Nobody = Nobody
  Masks = {{"READ", "WRITE"}}
  Flags = {"EOF"}
  MaxEvents = 2
  Faults = {}
  ChangeMask = FALSE
  SameBatch = TRUE
SPECIFICATION Spec
PROPERTY DispatchesLive
